---- MODULE Spec2Model ----
(***************************************************************************)
(* Model of the statistical scoring engine of Atlas (backend/app/ml).      *)
(*                                                                         *)
(* Numbers.  The program computes in binary floating point; the model      *)
(* computes in exact fixed point and names the inputs on which the doubles *)
(* differ from the exact value (DoubleAboveTie, DoubleSumShort).  Risk     *)
(* scores and tier boundaries are integers counting 1/12000 (T(m) is m     *)
(* thousandths, 20.0 is T(20000)), so that class means are exact and       *)
(* round(b, 2) is a real conversion and not the identity.                  *)
(***************************************************************************)
EXTENDS Integers, Sequences, FiniteSets, TLC

VARIABLES
    method,        \* RiskTierClassifier.method: "jenks" or "kmeans"
    k,             \* RiskTierClassifier.k
    boundaries,    \* RiskTierClassifier.boundaries (thousandths)
    tier_ranges,   \* RiskTierClassifier.tier_ranges: tier name -> <<lower, upper>>
    all_scores,    \* RiskTierClassifier.all_scores: the last fitted sample
    fitted_at,     \* RiskTierClassifier.fitted_at: "None" or a timestamp
    tier_call,     \* the last call made on the classifier and what it returned
    sev_in,        \* score_severity: the arguments of the call
    sev_out,       \* score_severity: <<the returned record>>, <<>> before it returns
    ens_in,        \* detect_anomalies_ensemble: the arguments and the forest's outcome
    ens_out,       \* detect_anomalies_ensemble: <<the returned list>>, <<>> before it returns
    _model,        \* event_classifier._model: "None" or the pipeline held
    model_file,    \* what is at MODEL_PATH: "missing", "good" or "corrupt"
    event_call,    \* the last call into event_classifier and what it returned
    load_calls,    \* how many times joblib.load(MODEL_PATH) was called so far
    trend_in,      \* detect_trend: the arguments of the call
    trend_out,     \* detect_trend: <<the returned TrendResult>>, <<>> before it returns
    det_in,        \* detect_iqr / detect_cusum / detect_isolation_forest: the call
    det_out,       \* the detector called: <<what it returned>>, <<>> before it returns
    stl_in,        \* decompose_stl: the arguments and what the library does
    stl_out,       \* decompose_stl: <<what it returned>>, <<>> before it returns
    kw_in,         \* classify_by_keywords: the text
    kw_out,        \* classify_by_keywords: <<what it returned>>, <<>> before it returns
    threads,       \* the threads calling classify on one RiskTierClassifier
    events,        \* the events table: id -> row, or NoRow
    daily_metrics, \* the daily_metrics table: a set of rows
    db_call,       \* the last pipeline call on the database
    risk_out,      \* compute_risk_and_trends: <<the series handed to detect_trend>>
    _bases_cache,  \* routes/valyu.py _bases_cache: "None" or the list stored
    _bases_cache_ts, \* routes/valyu.py _bases_cache_ts: None or a time in seconds
    clock,         \* time.time() in seconds
    bases_call     \* the last get_military_bases call and its answer

tierVars == <<method, k, boundaries, tier_ranges, all_scores, fitted_at, tier_call>>

sevVars == <<sev_in, sev_out>>

ensVars == <<ens_in, ens_out>>

eventVars == <<_model, model_file, event_call, load_calls>>

trendVars == <<trend_in, trend_out>>

detVars == <<det_in, det_out>>

stlVars == <<stl_in, stl_out>>

seriesVars == <<trend_in, trend_out, det_in, det_out, stl_in, stl_out>>

kwVars == <<kw_in, kw_out>>

dbVars == <<events, daily_metrics, db_call, risk_out>>

basesVars == <<_bases_cache, _bases_cache_ts, clock, bases_call>>

pipelineVars == <<kw_in, kw_out, threads, events, daily_metrics, db_call, risk_out,
                  _bases_cache, _bases_cache_ts, clock, bases_call>>

vars == <<method, k, boundaries, tier_ranges, all_scores, fitted_at, tier_call,
          sev_in, sev_out, ens_in, ens_out, _model, model_file, event_call,
          load_calls,
          trend_in, trend_out, det_in, det_out, stl_in, stl_out,
          kw_in, kw_out, threads, events, daily_metrics, db_call, risk_out,
          _bases_cache, _bases_cache_ts, clock, bases_call>>

(***************************************************************************)
(* Generic helpers                                                         *)
(***************************************************************************)
Min(a, b) == IF a <= b THEN a ELSE b

Max(a, b) == IF a >= b THEN a ELSE b

\* All sequences over S of length at most n.
SeqsUpTo(S, n) == UNION {[1..m -> S] : m \in 0..n}

(***************************************************************************)
(* risk_classifier.py                                                      *)
(*                                                                         *)
(* Scores and boundaries are integers counting 1/12000: T(m) is the value  *)
(* m/1000.  The factor 12 keeps the k-means centroids (class means) and    *)
(* their midpoints exact for classes of up to three scores.                *)
(***************************************************************************)
T(m) == 12 * m

TIER_NAMES == <<"info", "low", "medium", "high", "critical">>

\* Position of a tier in TIER_NAMES (ascending severity).
TierRank(name) == CHOOSE i \in 1..Len(TIER_NAMES) : TIER_NAMES[i] = name

\* ANCHOR_BOUNDARIES
ANCHOR_info_max == T(25000)

ANCHOR_low_max == T(45000)

ANCHOR_medium_max == T(65000)

ANCHOR_high_max == T(85000)

ANCHOR_critical_min == T(70000)

\* The upper anchors taken for the default boundaries.
DefaultBoundariesAtAnchors == <<T(25000), T(45000), T(65000), T(85000)>>

DEFAULT_BOUNDARIES == <<T(20000), T(40000), T(60000), T(78000)>>

\* None and NaN entries of a score list (valid scores are >= 0 here).
None == -1

NaN == -2

\* Decimal ties (x.xx5) of the model's domain whose nearest double lies above
\* the decimal: round(10.025, 2) is 10.03, while round(20.025, 2) is 20.02
\* because the double of 10.025 + 10 lies below 20.025.
DoubleAboveTie == {T(10025)}

\* round(b, 2): the builtin rounds the binary value correctly, so a decimal
\* tie goes the way its double lies.
Round2(v) ==
    LET q == v \div T(10)
        r == v % T(10)
    IN  IF 2 * r < T(10) THEN q * T(10)
        ELSE IF 2 * r > T(10) THEN (q + 1) * T(10)
        ELSE IF v \in DoubleAboveTie THEN (q + 1) * T(10) ELSE q * T(10)

\* _make_tier_ranges(boundaries)
MakeTierRanges(b) ==
    LET all_bounds == <<0>> \o b \o <<T(100000)>>
    IN  [i \in 1..Min(Len(TIER_NAMES), Len(all_bounds) - 1) |->
            [name |-> TIER_NAMES[i],
             lower |-> Round2(all_bounds[i]),
             upper |-> Round2(all_bounds[i + 1])]]

\* _anchor_boundaries with the cap of boundary 3 at high_max left out.
AnchorNoHighCap(x) ==
    IF Len(x) # 4 THEN DEFAULT_BOUNDARIES
    ELSE LET b0 == Max(Min(x[1], ANCHOR_info_max), T(10000))
             b1 == Max(Min(x[2], ANCHOR_low_max), b0 + T(10000))
             b2 == Max(Min(x[3], ANCHOR_medium_max), b1 + T(10000))
             b3 == Max(Max(x[4], ANCHOR_critical_min), b2 + T(8000))
         IN  <<b0, b1, b2, b3>>

\* _anchor_boundaries(boundaries)
AnchorBoundaries(x) ==
    IF Len(x) # 4 THEN DEFAULT_BOUNDARIES
    ELSE LET b0 == Max(Min(x[1], ANCHOR_info_max), T(10000))
             b1 == Max(Min(x[2], ANCHOR_low_max), b0 + T(10000))
             b2 == Max(Min(x[3], ANCHOR_medium_max), b1 + T(10000))
             b3 == Max(Max(Min(x[4], ANCHOR_high_max), ANCHOR_critical_min),
                       b2 + T(8000))
         IN  <<b0, b1, b2, b3>>

\* The partition step.  jenkspy.jenks_breaks and sklearn's KMeans are
\* libraries: both split the sorted sample into kk contiguous non-empty
\* classes, and which split they settle on is left open.  A split is the
\* ascending tuple of the last positions of its first kk-1 classes.
Splits(n, kk) ==
    {c \in [1..(kk - 1) -> 1..(n - 1)] : \A i \in 1..(kk - 2) : c[i] < c[i + 1]}

SortAsc(s) == SortSeq(s, LAMBDA a, b : a < b)

RECURSIVE SumSeq(_, _, _)
SumSeq(s, lo, hi) == IF lo > hi THEN 0 ELSE s[lo] + SumSeq(s, lo + 1, hi)

\* breaks[1:-1] of jenks_breaks: the upper bound of each class but the last.
JenksBoundaries(arr, c) == [i \in 1..Len(c) |-> SortAsc(arr)[c[i]]]

\* classify_kmeans: midpoints of consecutive sorted centroids (class means).
KMeansBoundaries(arr, c) ==
    LET s == SortAsc(arr)
        first(i) == IF i = 1 THEN 1 ELSE c[i - 1] + 1
        last(i) == IF i = Len(c) + 1 THEN Len(s) ELSE c[i]
        centroid(i) == SumSeq(s, first(i), last(i)) \div (last(i) - first(i) + 1)
    IN  [i \in 1..Len(c) |-> (centroid(i) + centroid(i + 1)) \div 2]

\* The too-few-scores branch keeping the boundaries held.
ClassifyWithKeepsHeld(m, arr, kk, c) ==
    IF Len(arr) < kk
    THEN <<boundaries, tier_ranges>>
    ELSE LET raw == IF m = "jenks" THEN JenksBoundaries(arr, c)
                    ELSE KMeansBoundaries(arr, c)
             b == AnchorBoundaries(raw)
         IN  <<[i \in 1..Len(b) |-> Round2(b[i])], MakeTierRanges(b)>>

\* classify_jenks / classify_kmeans, given the split the library settled on:
\* <<boundaries, tier_ranges>>.
ClassifyWith(m, arr, kk, c) ==
    IF Len(arr) < kk
    THEN <<DEFAULT_BOUNDARIES, MakeTierRanges(DEFAULT_BOUNDARIES)>>
    ELSE LET raw == IF m = "jenks" THEN JenksBoundaries(arr, c)
                    ELSE KMeansBoundaries(arr, c)
             b == AnchorBoundaries(raw)
         IN  <<[i \in 1..Len(b) |-> Round2(b[i])], MakeTierRanges(b)>>

\* assign_tier with `<=` in place of `<`.
AssignTierInclusive(score, b) ==
    LET hit == {i \in 1..Len(b) : score <= b[i]}
    IN  IF hit = {} THEN TIER_NAMES[Len(TIER_NAMES)]
        ELSE TIER_NAMES[CHOOSE i \in hit : \A j \in hit : i <= j]

\* assign_tier(score, boundaries)
AssignTier(score, b) ==
    LET hit == {i \in 1..Len(b) : score < b[i]}
    IN  IF hit = {} THEN TIER_NAMES[Len(TIER_NAMES)]
        ELSE TIER_NAMES[CHOOSE i \in hit : \A j \in hit : i <= j]

\* round(x, ndigits) of a quotient a/b counted in the target unit: nearest,
\* ties to even.
RoundDiv(a, b) ==
    LET q == a \div b
        r == a % b
    IN  IF 2 * r < b THEN q
        ELSE IF 2 * r > b THEN q + 1
        ELSE IF q % 2 = 0 THEN q ELSE q + 1

\* compute_percentile(score, all_scores), in tenths of a percent after
\* classify's round(percentile, 1).
ComputePercentile(score, scores) ==
    IF Len(scores) = 0 THEN 500
    ELSE RoundDiv(Cardinality({i \in 1..Len(scores) : scores[i] <= score}) * 1000,
                  Len(scores))

\* Score lists handed to fit: every sub-list of one of these lists (a steep
\* low sample, a sample crowding the upper anchors, a sample above every
\* anchor, a constant sample).
FitMasters ==
    { <<T(9000), T(10025), T(18000), T(50000), T(70000), T(90000)>>,
      <<T(30000), None, T(40000), T(64000), T(68000), T(72000)>>,
      <<T(86000), T(91000), T(95000), T(97000), T(99000)>>,
      <<T(50000), T(50000), NaN, T(50000), T(50000), T(50000)>> }

FitInputs ==
    UNION {{[i \in 1..Cardinality(keep) |->
                m[CHOOSE j \in keep : Cardinality({h \in keep : h < j}) = i - 1]] :
            keep \in SUBSET (1..Len(m))} : m \in FitMasters}

\* Scores handed to classify.
ClassifyScores == {T(20020), T(70000), T(85000)}

\* datetime.now(): a timestamp that differs from the one held.
FreshStamp(prev) == IF prev = "t1" THEN "t2" ELSE "t1"

\* No call yet.  `changed` records whether the call replaced the boundaries
\* held before it by different ones, `none_valid` whether the list handed to
\* fit was empty or held only None and NaN.
NoCall ==
    [op |-> "none", n_valid |-> 0, none_valid |-> FALSE, changed |-> FALSE,
     score |-> 0, tier |-> "", pct |-> 0]

TierInit ==
    /\ method \in {"jenks", "kmeans"}
    /\ k = 5
    /\ boundaries = DEFAULT_BOUNDARIES
    /\ tier_ranges = MakeTierRanges(DEFAULT_BOUNDARIES)
    /\ all_scores = <<>>
    /\ fitted_at = "None"
    /\ tier_call = NoCall

\* Every entry of the list is None or NaN (the empty list among them).
NoneValid(scores) == \A i \in 1..Len(scores) : scores[i] \in {None, NaN}

\* The filter of fit keeping NaN.
ValidScoresKeepsNaN(scores) == SelectSeq(scores, LAMBDA s : s # None)

\* The valid scores of a list: `s is not None and not np.isnan(s)`.
ValidScores(scores) == SelectSeq(scores, LAMBDA s : s # None /\ s # NaN)

\* RiskTierClassifier.fit(scores), the partition step returning normally.
Fit(scores) ==
    LET arr == ValidScores(scores)
    IN  IF Len(arr) = 0
        THEN /\ tier_call' = [NoCall EXCEPT !.op = "fit", !.none_valid = NoneValid(scores)]
             /\ UNCHANGED <<method, k, boundaries, tier_ranges, all_scores, fitted_at,
                            sevVars, ensVars, eventVars, seriesVars, pipelineVars>>
        ELSE \E c \in (IF Len(arr) < k THEN {<<>>} ELSE Splits(Len(arr), k)) :
                LET res == ClassifyWith(method, arr, k, c)
                IN  /\ all_scores' = arr
                    /\ boundaries' = res[1]
                    /\ tier_ranges' = res[2]
                    /\ fitted_at' = FreshStamp(fitted_at)
                    /\ tier_call' = [NoCall EXCEPT !.op = "fit", !.n_valid = Len(arr),
                                                   !.none_valid = NoneValid(scores),
                                                   !.changed = (res[1] # boundaries)]
                    /\ UNCHANGED <<method, k, sevVars, ensVars, eventVars, seriesVars, pipelineVars>>

\* RiskTierClassifier.classify(score)
Classify(score) ==
    /\ tier_call' = [NoCall EXCEPT !.op = "classify", !.score = score,
                        !.tier = AssignTier(score, boundaries),
                        !.pct = IF Len(all_scores) > 0
                                THEN ComputePercentile(score, all_scores) ELSE 500]
    /\ UNCHANGED <<method, k, boundaries, tier_ranges, all_scores, fitted_at,
                            sevVars, ensVars, eventVars, seriesVars, pipelineVars>>

FitCall == \E scores \in FitInputs : Fit(scores)

ClassifyCall == \E score \in ClassifyScores : Classify(score)

TierNext == FitCall \/ ClassifyCall

(***************************************************************************)
(* Claims about RiskTierClassifier                                         *)
(***************************************************************************)
\* Scores at which the claims probe classify: the scores handed to classify,
\* the anchors, and every stored boundary with its neighbours.
ProbeScores ==
    ClassifyScores
        \cup {0, T(69990), T(70000), T(84990), T(85000), T(99990), T(100000)}
        \cup UNION {{boundaries[i] - T(10), boundaries[i], boundaries[i] + T(10)} :
                        i \in 1..Len(boundaries)}

FitWithAtLeast5 == tier_call.op = "fit" /\ tier_call.n_valid >= 5

\* C1: after a fit on at least 5 valid scores the four stored boundaries are
\* strictly ascending, with b0 in [10,25], b1 in [b0+10,45], b2 in [b1+10,65]
\* and b3 in [max(70,b2+8),85].
C1_StoredBoundariesAnchored ==
    FitWithAtLeast5 =>
        /\ Len(boundaries) = 4
        /\ \A i \in 1..3 : boundaries[i] < boundaries[i + 1]
        /\ T(10000) <= boundaries[1] /\ boundaries[1] <= T(25000)
        /\ boundaries[1] + T(10000) <= boundaries[2] /\ boundaries[2] <= T(45000)
        /\ boundaries[2] + T(10000) <= boundaries[3] /\ boundaries[3] <= T(65000)
        /\ Max(T(70000), boundaries[3] + T(8000)) <= boundaries[4]
        /\ boundaries[4] <= T(85000)

\* C2: in every state of the classifier, classify puts no score >= 70 below
\* "high" and no score >= 85 below "critical".
C2_SevereScoresStaySevere ==
    /\ \A s \in ProbeScores :
          /\ s >= T(70000) => TierRank(AssignTier(s, boundaries)) >= TierRank("high")
          /\ s >= T(85000) => AssignTier(s, boundaries) = "critical"
    /\ tier_call.op = "classify" =>
          /\ tier_call.score >= T(70000) => TierRank(tier_call.tier) >= TierRank("high")
          /\ tier_call.score >= T(85000) => tier_call.tier = "critical"

\* C2 witness: a score of 85 was classified by a classifier whose fit moved
\* the top boundary up to the anchor.
C2_Witness ==
    /\ tier_call.op = "classify"
    /\ tier_call.score = T(85000)
    /\ fitted_at # "None"
    /\ boundaries[4] = T(85000)

\* The tier ranges holding a score: [lower, upper), the top one also holding 100.
RangesHolding(s) ==
    {i \in 1..Len(tier_ranges) :
        /\ tier_ranges[i].lower <= s
        /\ \/ s < tier_ranges[i].upper
           \/ i = Len(tier_ranges) /\ s = T(100000)}

\* C3: the five tier ranges are ordered, do not overlap and cover [0,100], and
\* assign_tier maps every score of [0,100] to the one tier whose range holds it.
C3_TiersPartitionScores ==
    /\ Len(tier_ranges) = 5
    /\ \A i \in 1..5 : tier_ranges[i].name = TIER_NAMES[i]
    /\ tier_ranges[1].lower = 0
    /\ tier_ranges[5].upper = T(100000)
    /\ \A i \in 1..5 : tier_ranges[i].lower < tier_ranges[i].upper
    /\ \A i \in 1..4 : tier_ranges[i].upper = tier_ranges[i + 1].lower
    /\ \A s \in ProbeScores :
          (0 <= s /\ s <= T(100000)) =>
              RangesHolding(s) = {TierRank(AssignTier(s, boundaries))}

\* C3 witness: a fit moved the boundaries off the defaults, and a score equal
\* to a boundary was classified.
C3_Witness ==
    /\ fitted_at # "None"
    /\ boundaries # DEFAULT_BOUNDARIES
    /\ tier_call.op = "classify"
    /\ \E i \in 1..Len(boundaries) : tier_call.score = boundaries[i]

\* C9 as stated: a fit with fewer than 5 valid scores leaves the default
\* boundaries, whatever boundaries were held before.
C9_FewerThan5GivesDefaults ==
    (tier_call.op = "fit" /\ tier_call.n_valid < 5) => boundaries = DEFAULT_BOUNDARIES

\* C9 amended: a fit with at least one and fewer than 5 valid scores leaves
\* the default boundaries and their tier ranges, whatever was held before.
C9_OneToFourGivesDefaults ==
    (tier_call.op = "fit" /\ tier_call.n_valid >= 1 /\ tier_call.n_valid < 5) =>
        /\ boundaries = DEFAULT_BOUNDARIES
        /\ tier_ranges = MakeTierRanges(DEFAULT_BOUNDARIES)

\* C9 witness: such a fit replaced fitted boundaries by the defaults.
C9_Witness ==
    /\ tier_call.op = "fit"
    /\ tier_call.n_valid >= 1 /\ tier_call.n_valid < 5
    /\ tier_call.changed
    /\ boundaries = DEFAULT_BOUNDARIES

(***************************************************************************)
(* severity_scorer.py                                                      *)
(*                                                                         *)
(* A text is a sequence of phrases of Vocabulary joined by single spaces.  *)
(* No lexicon term straddles two phrases, so text.count(term) is the       *)
(* number of phrases holding the term (each holds a term at most once).    *)
(* The lexicons are listed for the terms that occur in Vocabulary; every   *)
(* other term of the source's tables counts 0 in every text.               *)
(*                                                                         *)
(* Component scores are integers counting 1/600000 (U is 1.0): every       *)
(* weight, quotient and product of the scorer is exact in that unit for    *)
(* the inputs drawn here.                                                  *)
(***************************************************************************)
U == 6 * 100000

Vocabulary ==
    {"nuclear war invasion", "war", "warn", "peace", "ukraine", "breaking",
     "urgent alert imminent", "war in ukraine", "war in syria"}

\* The lexicon terms each phrase holds as substrings ("warn" holds "war").
Substrings ==
    [p \in Vocabulary |->
        CASE p = "nuclear war invasion" -> {"nuclear", "war", "invasion"}
          [] p = "war" -> {"war"}
          [] p = "warn" -> {"war", "warn"}
          [] p = "peace" -> {"peace"}
          [] p = "ukraine" -> {"ukraine"}
          [] p = "breaking" -> {"breaking"}
          [] p = "urgent alert imminent" -> {"urgent", "alert", "imminent"}
          [] p = "war in ukraine" -> {"war", "ukraine"}
          [] p = "war in syria" -> {"war", "syria"}]

\* len(re.findall(r'\b\w+\b', phrase)) and len(phrase).
WordsOf(p) ==
    IF p \in {"nuclear war invasion", "urgent alert imminent", "war in ukraine",
              "war in syria"}
    THEN 3 ELSE 1

CharsOf(p) ==
    CASE p = "nuclear war invasion" -> 20
      [] p = "war" -> 3
      [] p = "warn" -> 4
      [] p = "peace" -> 5
      [] p = "ukraine" -> 7
      [] p = "breaking" -> 8
      [] p = "urgent alert imminent" -> 21
      [] p = "war in ukraine" -> 14
      [] p = "war in syria" -> 12

\* sum(f[x] for x in S)
RECURSIVE SumOver(_, _)
SumOver(S, f) ==
    IF S = {} THEN 0
    ELSE LET x == CHOOSE y \in S : TRUE IN f[x] + SumOver(S \ {x}, f)

\* text_lower.count(term)
Count(term, text) == Cardinality({i \in 1..Len(text) : term \in Substrings[text[i]]})

TotalWords(text) == SumOver(1..Len(text), [i \in 1..Len(text) |-> WordsOf(text[i])])

\* len(text)
TextLength(text) ==
    IF Len(text) = 0 THEN 0
    ELSE SumOver(1..Len(text), [i \in 1..Len(text) |-> CharsOf(text[i])]) + (Len(text) - 1)

\* CATEGORY_WEIGHTS.get(category, 0.3), in hundredths.
CategoryWeight(category) ==
    CASE category = "Armed Conflict" -> 100
      [] category = "Crime / Terror" -> 85
      [] category = "Civil Unrest" -> 65
      [] category = "Infrastructure / Energy" -> 60
      [] category = "Economic Disruption" -> 50
      [] category = "Diplomacy / Sanctions" -> 35
      [] OTHER -> 30

\* CRISIS_KEYWORDS, in halves.
CRISIS_KEYWORDS == [t \in {"nuclear", "invasion", "war"} |-> IF t = "war" THEN 4 ELSE 6]

\* _NEGATIVE_LEXICON and _POSITIVE_LEXICON, in hundredths.
NEGATIVE_LEXICON == [t \in {"war", "invasion", "warn"} |-> IF t = "warn" THEN 40 ELSE 85]

POSITIVE_LEXICON == [t \in {"peace"} |-> 80]

URGENCY_WORDS == {"breaking", "urgent", "alert", "imminent"}

\* CONFLICT_ZONE_SCORES, in hundredths; 0 stands for a code not in the table.
ConflictZoneScore(code) ==
    CASE code = "UA" -> 100
      [] code = "SY" -> 85
      [] code = "IR" -> 70
      [] code = "CN" -> 50
      [] OTHER -> 0

\* _COUNTRY_NAMES_TO_SCORES, in hundredths.
COUNTRY_NAMES_TO_SCORES ==
    [t \in {"ukraine", "syria"} |-> IF t = "ukraine" THEN 100 ELSE 85]

\* str.upper() on the country codes drawn here.
Upper(code) == IF code = "ua" THEN "UA" ELSE code

MaxOf(S) == CHOOSE x \in S : \A y \in S : y <= x

\* score / max(1, total_words / 50), exact while the text has at most 50 words.
Density(score, total_words) == (score * 50) \div Max(50, total_words)

\* _compute_sentiment_score(text): <<severity in U, polarity in 1/10000>>.
ComputeSentimentScore(text) ==
    LET total_words == Max(TotalWords(text), 1)
        neg_score == SumOver(DOMAIN NEGATIVE_LEXICON,
                [t \in DOMAIN NEGATIVE_LEXICON |-> NEGATIVE_LEXICON[t] * Min(Count(t, text), 5)])
        neg_hits == SumOver(DOMAIN NEGATIVE_LEXICON,
                [t \in DOMAIN NEGATIVE_LEXICON |-> Count(t, text)])
        pos_score == SumOver(DOMAIN POSITIVE_LEXICON,
                [t \in DOMAIN POSITIVE_LEXICON |-> POSITIVE_LEXICON[t] * Min(Count(t, text), 5)])
        pos_hits == SumOver(DOMAIN POSITIVE_LEXICON,
                [t \in DOMAIN POSITIVE_LEXICON |-> Count(t, text)])
        neg_density == Density(neg_score, total_words)
        pos_density == Density(pos_score, total_words)
        total == neg_density + pos_density
        polarity == IF total = 0 THEN 0
                    ELSE RoundDiv((pos_density - neg_density) * 10000, total)
        severity == Min(U, neg_density * (U \div 300))
        boosted == IF neg_hits > 0 /\ neg_hits > pos_hits * 2
                   THEN Min(U, (severity * 12) \div 10) ELSE severity
    IN  <<boosted, polarity>>

\* _compute_keyword_intensity(text)
ComputeKeywordIntensity(text) ==
    LET total_weight == SumOver(DOMAIN CRISIS_KEYWORDS,
                [t \in DOMAIN CRISIS_KEYWORDS |-> CRISIS_KEYWORDS[t] * Min(Count(t, text), 3)])
    IN  Min(U, total_weight * (U \div 16))

\* _compute_urgency_boost(text)
ComputeUrgencyBoost(text) ==
    Min((U * 15) \div 100,
        Cardinality({w \in URGENCY_WORDS : Count(w, text) > 0}) * (U \div 20))

\* _compute_entity_density(entity_count, text_length), exact while the text
\* has at most 500 characters.
ComputeEntityDensity(entity_count, text_length) ==
    IF text_length = 0 THEN 0
    ELSE Min(U, (entity_count * (U \div 10) * 500) \div Max(500, text_length))

\* _compute_recency_score(published_date): no date is neutral, today's date
\* scores exp(0), a date decades back scores exp(-0.1 * days), which is 0.0.
ComputeRecencyScore(published_date) ==
    CASE published_date = "None" -> U \div 2
      [] published_date = "today" -> U
      [] published_date = "1950-01-01" -> 0
      [] OTHER -> U \div 2

\* The geopolitical score with text mentions counted in full.
ComputeGeopoliticalScoreUndiscounted(country_code, text) ==
    LET direct == IF country_code # "None" THEN ConflictZoneScore(Upper(country_code)) ELSE 0
        mention_scores == {COUNTRY_NAMES_TO_SCORES[t] :
                              t \in {n \in DOMAIN COUNTRY_NAMES_TO_SCORES : Count(n, text) > 0}}
        base == IF mention_scores # {}
                THEN Max(direct, MaxOf(mention_scores)) ELSE direct
    IN  base * (U \div 100)

\* _compute_geopolitical_score(country_code, text)
ComputeGeopoliticalScore(country_code, text) ==
    LET direct == IF country_code # "None" THEN ConflictZoneScore(Upper(country_code)) ELSE 0
        mention_scores == {COUNTRY_NAMES_TO_SCORES[t] :
                              t \in {n \in DOMAIN COUNTRY_NAMES_TO_SCORES : Count(n, text) > 0}}
        base == IF mention_scores # {}
                THEN Max(direct, (MaxOf(mention_scores) * 8) \div 10) ELSE direct
    IN  base * (U \div 100)

\* The Goldstein mapping without its clamp to [0, 1].
GdeltBoostUnclamped(goldstein_milli) == (10000 - goldstein_milli) * (U \div 20000)

\* max(0.0, min(1.0, (10.0 - goldstein_scale) / 20.0)), the scale in thousandths.
GdeltBoost(goldstein_milli) ==
    Max(0, Min(U, (10000 - goldstein_milli) * (U \div 20000)))

\* {1: 0.1, 2: 0.2, 3: 0.6, 4: 0.9}.get(quad_class, 0.3)
QuadSeverity(quad_class) ==
    CASE quad_class = 1 -> U \div 10
      [] quad_class = 2 -> (U * 2) \div 10
      [] quad_class = 3 -> (U * 6) \div 10
      [] quad_class = 4 -> (U * 9) \div 10
      [] OTHER -> (U * 3) \div 10

\* sentiment_score after the GDELT overrides.
SentimentAfterOverride(in) ==
    LET s0 == ComputeSentimentScore(in.text)[1]
        s1 == IF in.goldstein_scale # <<>>
              THEN Max(s0, GdeltBoost(in.goldstein_scale[1])) ELSE s0
    IN  IF in.quad_class # <<>> THEN Max(s1, QuadSeverity(in.quad_class[1])) ELSE s1

\* The floor boost with the active-war floor left out.
FloorBoostNoWarFloor(composite, geo_score, sentiment_score) ==
    IF geo_score >= (U * 70) \div 100 /\ sentiment_score >= (U * 3) \div 10
    THEN Max(composite, U \div 2)
    ELSE composite

\* The floor boost of score_severity.
FloorBoost(composite, geo_score, sentiment_score) ==
    IF geo_score >= (U * 85) \div 100 /\ sentiment_score >= (U * 3) \div 10
    THEN Max(composite, (U * 65) \div 100)
    ELSE IF geo_score >= (U * 70) \div 100 /\ sentiment_score >= (U * 3) \div 10
    THEN Max(composite, U \div 2)
    ELSE composite

\* The branch of the floor boost a call takes.
FloorBranch(geo_score, sentiment_score) ==
    IF geo_score >= (U * 85) \div 100 /\ sentiment_score >= (U * 3) \div 10
    THEN "active_war"
    ELSE IF geo_score >= (U * 70) \div 100 /\ sentiment_score >= (U * 3) \div 10
    THEN "high_risk"
    ELSE "none"

\* The default threat level of a severity index counted in 1/U.
ThreatLevel(severity_index) ==
    IF severity_index >= 75 * U THEN "critical"
    ELSE IF severity_index >= 55 * U THEN "high"
    ELSE IF severity_index >= 35 * U THEN "medium"
    ELSE IF severity_index >= 18 * U THEN "low"
    ELSE "info"

\* The component tuples <<sentiment, keyword, category, entity, recency, geo,
\* urgency>> drawn here whose weighted sum, added left to right in doubles,
\* comes out below the exact sum (0.5499999999999999 where the exact sum is
\* 0.55).
DoubleSumShort ==
    {<<U, 0, U, 0, U, 0, (U * 15) \div 100>>,
     <<U, 0, U, U, 0, 0, (U * 15) \div 100>>,
     <<U, 0, (U * 3) \div 10, 0, U, (U * 7) \div 10, (U * 15) \div 100>>,
     <<U, 0, (U * 3) \div 10, U, 0, (U * 7) \div 10, (U * 15) \div 100>>}

\* The weighted composite before the floors; one unit stands for the
\* shortfall of the double sum.
WeightedComposite(c) ==
    (20 * c[1] + 25 * c[2] + 15 * c[3] + 5 * c[4] + 5 * c[5] + 15 * c[6]) \div 100
    + c[7] - (IF c \in DoubleSumShort THEN 1 ELSE 0)

\* round(x, 4) of a score counted in 1/U, in 1/10000.
Round4(x) == RoundDiv(x, U \div 10000)

\* score_severity(text, category, entity_count, published_date, country_code,
\* goldstein_scale, quad_class): severity_index in hundredths, the components
\* and the polarity in 1/10000.
ScoreSeverity(in) ==
    LET sent == ComputeSentimentScore(in.text)
        sentiment_score == SentimentAfterOverride(in)
        keyword_score == ComputeKeywordIntensity(in.text)
        category_score == CategoryWeight(in.category) * (U \div 100)
        entity_score == ComputeEntityDensity(in.entity_count, TextLength(in.text))
        recency_score == ComputeRecencyScore(in.published_date)
        urgency_boost == ComputeUrgencyBoost(in.text)
        geo_score == ComputeGeopoliticalScore(in.country_code, in.text)
        weighted == WeightedComposite(<<sentiment_score, keyword_score, category_score,
                                        entity_score, recency_score, geo_score,
                                        urgency_boost>>)
        composite == FloorBoost(weighted, geo_score, sentiment_score)
        severity_index == Min(100 * U, Max(0, composite * 100))
    IN  [severity_index |-> RoundDiv(severity_index, U \div 100),
         threat_level |-> ThreatLevel(severity_index),
         sentiment_polarity |-> sent[2],
         components |->
            [sentiment |-> Round4(sentiment_score),
             keyword_intensity |-> Round4(keyword_score),
             category_weight |-> Round4(category_score),
             entity_density |-> Round4(entity_score),
             recency |-> Round4(recency_score),
             geopolitical |-> Round4(geo_score),
             urgency_boost |-> Round4(urgency_boost)]]

\* The longest text, in phrases.
MaxPhrases == 1

\* The calls of score_severity drawn: an absent optional argument is <<>>
\* (or "None" for a string).
SeverityInputs ==
    [text : SeqsUpTo(Vocabulary, MaxPhrases),
     category : {"Armed Conflict", "Civil Unrest", "Unlisted"},
     entity_count : {0, 3, 40},
     published_date : {"None", "today", "1950-01-01"},
     country_code : {"None", "ua", "SY", "IR", "FR"},
     goldstein_scale : {<<>>, <<-7496>>, <<4000>>, <<4002>>, <<-12000>>, <<15000>>},
     quad_class : {<<>>, <<1>>, <<3>>, <<9>>}]

NoSeverityCall == [text |-> <<>>, category |-> "", entity_count |-> 0,
                   published_date |-> "None", country_code |-> "None",
                   goldstein_scale |-> <<>>, quad_class |-> <<>>]

SevIdle == sev_in = NoSeverityCall /\ sev_out = <<>>

SevInit == sev_in \in SeverityInputs /\ sev_out = <<>>

\* The call returns.
ScoreSeverityReturns ==
    /\ sev_out = <<>>
    /\ sev_out' = <<ScoreSeverity(sev_in)>>
    /\ UNCHANGED <<sev_in, tierVars, ensVars, eventVars, seriesVars, pipelineVars>>

(***************************************************************************)
(* Claims about score_severity                                             *)
(***************************************************************************)
SevReturned == sev_out # <<>>

SevGeo == ComputeGeopoliticalScore(sev_in.country_code, sev_in.text)

\* C4: when the geopolitical score is at least 0.85 and the sentiment score
\* after the GDELT overrides is at least 0.3, the returned severity_index is
\* at least 65 and the threat level is high or critical; when the
\* geopolitical score is at least 0.70 and the sentiment at least 0.3, the
\* severity_index is at least 50.
C4_ConflictZoneFloors ==
    SevReturned =>
        /\ (SevGeo >= (U * 85) \div 100 /\ SentimentAfterOverride(sev_in) >= (U * 3) \div 10)
              => /\ sev_out[1].severity_index >= 6500
                 /\ sev_out[1].threat_level \in {"high", "critical"}
        /\ (SevGeo >= (U * 70) \div 100 /\ SentimentAfterOverride(sev_in) >= (U * 3) \div 10)
              => sev_out[1].severity_index >= 5000

\* An active-war call whose weighted sum alone is far below 0.65: the floor
\* is what lifts it to 65.
C4_Witness ==
    /\ SevReturned
    /\ SevGeo >= (U * 85) \div 100
    /\ SentimentAfterOverride(sev_in) = (U * 3) \div 10
    /\ sev_in.text = <<>>
    /\ sev_in.category = "Unlisted"
    /\ sev_out[1].severity_index = 6500
    /\ sev_out[1].threat_level = "high"

\* C29: when score_severity is called without a country code, as
\* fetch_and_classify calls it, the geopolitical component never exceeds
\* 0.8, so the 0.65 active-war floor is applied for no text; only the 0.50
\* floor can be.
C29_NoCountryCodeNoWarFloor ==
    (SevReturned /\ sev_in.country_code = "None") =>
        /\ sev_out[1].components.geopolitical <= 8000
        /\ SevGeo <= (U * 8) \div 10
        /\ FloorBranch(SevGeo, SentimentAfterOverride(sev_in)) # "active_war"

\* The call fetch_and_classify makes on a text naming an active war zone:
\* the geopolitical component is 0.8 and the 0.50 floor lifts a weighted sum
\* of about 0.32 to a severity_index of 50.
C29_Witness ==
    /\ SevReturned
    /\ sev_in.country_code = "None"
    /\ sev_in.goldstein_scale = <<>>
    /\ sev_in.quad_class = <<>>
    /\ sev_in.text = <<"war in ukraine">>
    /\ sev_in.category = "Unlisted"
    /\ sev_in.entity_count = 0
    /\ sev_in.published_date = "None"
    /\ sev_out[1].components.geopolitical = 8000
    /\ FloorBranch(SevGeo, SentimentAfterOverride(sev_in)) = "high_risk"
    /\ sev_out[1].severity_index = 5000

\* C5: for every input, a Goldstein scale outside [-10, 10] and a conflict
\* class the table does not list included, severity_index is in [0, 100],
\* every component but the polarity is in [0, 1], the urgency boost is at most
\* 0.15 and the polarity is in [-1, 1].
C5_OutputsInRange ==
    SevReturned =>
        /\ sev_out[1].severity_index \in 0..10000
        /\ \A name \in DOMAIN sev_out[1].components :
              sev_out[1].components[name] \in 0..10000
        /\ sev_out[1].components.urgency_boost <= 1500
        /\ sev_out[1].sentiment_polarity \in (-10000)..10000

\* A call with a Goldstein scale of -12 and conflict class 9: the clamp holds
\* the sentiment at 1.0.
C5_Witness ==
    /\ SevReturned
    /\ sev_in.goldstein_scale = <<-12000>>
    /\ sev_in.quad_class = <<9>>
    /\ sev_in.category = "Unlisted"
    /\ sev_out[1].components.sentiment = 10000
    /\ sev_out[1].components.urgency_boost = 1500

\* C6: the returned threat_level is the level of the returned severity_index
\* under the cutoffs 75 / 55 / 35 / 18.
C6_ThreatAgreesWithIndex ==
    SevReturned =>
        sev_out[1].threat_level =
            (IF sev_out[1].severity_index >= 7500 THEN "critical"
             ELSE IF sev_out[1].severity_index >= 5500 THEN "high"
             ELSE IF sev_out[1].severity_index >= 3500 THEN "medium"
             ELSE IF sev_out[1].severity_index >= 1800 THEN "low"
             ELSE "info")

(***************************************************************************)
(* anomaly_detection.py                                                    *)
(*                                                                         *)
(* Series hold integer counts and positions are 1-based (index i of the    *)
(* source is position i + 1).  The isolation forest is a library model:    *)
(* for 10 rows or more its flags and normalised scores are drawn, not      *)
(* computed; the optional sentiment and severity columns reach nothing     *)
(* else.                                                                   *)
(***************************************************************************)

\* np.percentile(arr, q) by linear interpolation, times 4, for q = 25 * quarter.
Percentile4(values, quarter) ==
    LET sorted == SortAsc(values)
        pos4 == quarter * (Len(values) - 1)
        lo == pos4 \div 4
        r == pos4 % 4
    IN  IF r = 0 THEN 4 * sorted[lo + 1]
        ELSE 4 * sorted[lo + 1] + r * (sorted[lo + 2] - sorted[lo + 1])

\* detect_iqr(values) with multiplier 1.5: the bounds are compared times 8.
DetectIqr(values) ==
    IF Len(values) < 4 THEN [i \in 1..Len(values) |-> FALSE]
    ELSE LET q1 == Percentile4(values, 1)
             q3 == Percentile4(values, 3)
             iqr == q3 - q1
             lower_bound == 2 * q1 - 3 * iqr
             upper_bound == 2 * q3 + 3 * iqr
         IN  [i \in 1..Len(values) |->
                 8 * values[i] < lower_bound \/ 8 * values[i] > upper_bound]

\* clf.decision_function(features)[i] in thousandths: outcome.levels holds
\* the score of the rows predicted -1, of the other odd rows and of the other
\* even rows.
RawScore(outcome, i) ==
    IF i \in outcome.flagged THEN outcome.levels[1]
    ELSE IF i % 2 = 1 THEN outcome.levels[2]
    ELSE outcome.levels[3]

MinOf(S) == CHOOSE x \in S : \A y \in S : x <= y

\* norm_scores in 1/10000: 1.0 - (s - min_s) / (max_s - min_s), or 0.5 for
\* every row when all scores are equal.  The levels drawn divide exactly.
NormScores(n, outcome) ==
    IF n = 0 THEN <<>>
    ELSE LET min_s == MinOf({RawScore(outcome, j) : j \in 1..n})
             max_s == MaxOf({RawScore(outcome, j) : j \in 1..n})
         IN  [i \in 1..n |->
                 IF max_s > min_s
                 THEN 10000 - (10000 * (RawScore(outcome, i) - min_s)) \div (max_s - min_s)
                 ELSE 5000]

\* detect_isolation_forest fitting the forest on any number of rows.
DetectIsolationForestAlways(n, outcome) ==
    [flags |-> [i \in 1..n |-> i \in outcome.flagged],
     scores |-> NormScores(n, outcome)]

\* detect_isolation_forest: under 10 rows nothing is flagged and every score
\* is 0.0; otherwise the forest's predictions and raw scores are the outcome
\* drawn and the scores returned are normalised, in 1/10000.
DetectIsolationForest(n, outcome) ==
    IF n < 10
    THEN [flags |-> [i \in 1..n |-> FALSE], scores |-> [i \in 1..n |-> 0]]
    ELSE [flags |-> [i \in 1..n |-> i \in outcome.flagged],
          scores |-> NormScores(n, outcome)]

\* The running sums of detect_cusum with the loop starting at the first
\* observation.
RECURSIVE CusumSumsFromFirst(_, _, _)
CusumSumsFromFirst(values, drift10, i) ==
    IF i <= 0 THEN <<>>
    ELSE LET n == Len(values)
             sums == CusumSumsFromFirst(values, drift10, i - 1)
             before == IF i = 1 THEN [pos |-> 0, neg |-> 0] ELSE sums[i - 1]
             dev == 10 * (n * values[i] - SumSeq(values, 1, n))
         IN  Append(sums, [pos |-> Max(0, before.pos + dev - drift10 * n),
                           neg |-> Max(0, before.neg - dev - drift10 * n)])

\* The running sums of detect_cusum times 10 * len(values): s_pos and s_neg
\* at positions 1..i, the drift in tenths.
RECURSIVE CusumSums(_, _, _)
CusumSums(values, drift10, i) ==
    IF i <= 1 THEN <<[pos |-> 0, neg |-> 0]>>
    ELSE LET n == Len(values)
             sums == CusumSums(values, drift10, i - 1)
             dev == 10 * (n * values[i] - SumSeq(values, 1, n))
         IN  Append(sums, [pos |-> Max(0, sums[i - 1].pos + dev - drift10 * n),
                           neg |-> Max(0, sums[i - 1].neg - dev - drift10 * n)])

\* detect_cusum alerting only while a sum lies between the threshold and
\* twice the threshold.
CusumBanded(values, threshold10, drift10) ==
    LET n == Len(values)
    IN  IF n < 5
        THEN [flags |-> [i \in 1..n |-> FALSE], scores |-> [i \in 1..n |-> 0]]
        ELSE LET sums == CusumSums(values, drift10, n)
                 InBand(x) == x > threshold10 * n /\ x <= 2 * threshold10 * n
             IN  [flags |-> [i \in 1..n |->
                               i > 1 /\ (InBand(sums[i].pos) \/ InBand(sums[i].neg))],
                  scores |-> [i \in 1..n |-> Max(sums[i].pos, sums[i].neg)]]

\* detect_cusum(values, threshold, drift), threshold and drift in tenths.
\* The loop starts at the second observation: the first is never compared
\* with the threshold.
CusumWith(values, threshold10, drift10) ==
    LET n == Len(values)
    IN  IF n < 5
        THEN [flags |-> [i \in 1..n |-> FALSE], scores |-> [i \in 1..n |-> 0]]
        ELSE LET sums == CusumSums(values, drift10, n)
             IN  [flags |-> [i \in 1..n |->
                               /\ i > 1
                               /\ \/ sums[i].pos > threshold10 * n
                                  \/ sums[i].neg > threshold10 * n],
                  scores |-> [i \in 1..n |-> Max(sums[i].pos, sums[i].neg)]]

\* detect_cusum with the threshold at 6.0.
DetectCusumThreshold6(values) == CusumWith(values, 60, 5)

\* detect_cusum(values) with threshold 5.0 and drift 0.5; the scores are
\* counted in 1 / (10 * len(values)).
DetectCusum(values) == CusumWith(values, 50, 5)

\* The vote of a single method.
IsAnomalyAny(methods, min_agreement) == Len(methods) >= 1

\* The vote with > in place of >=.
IsAnomalyStrict(methods, min_agreement) == Len(methods) > min_agreement

\* is_anomaly = len(methods) >= min_agreement
IsAnomaly(methods, min_agreement) == Len(methods) >= min_agreement

\* The composite score without the floor of confirmed anomalies.
AnomalyScoreNoFloor(mean2, is_anomaly) == mean2

\* anomaly_score in 1/20000 from twice the mean of the component scores:
\* max(anomaly_score, 0.6) for a confirmed anomaly.
AnomalyScore(mean2, is_anomaly) == IF is_anomaly THEN Max(mean2, 12000) ELSE mean2

\* detect_anomalies_ensemble(event_counts, sentiments, severities,
\* min_agreement): anomaly_score in 1/20000, the CUSUM share rounded to
\* 1/10000; the detail scores in 1/10000.
DetectAnomaliesEnsemble(event_counts, min_agreement, outcome) ==
    LET n == Len(event_counts)
        iqr_flags == DetectIqr(event_counts)
        iso == DetectIsolationForest(n, outcome)
        cusum == DetectCusum(event_counts)
        max_cusum == MaxOf({cusum.scores[j] : j \in 1..n})
    IN  [i \in 1..n |->
            LET methods == (IF iqr_flags[i] THEN <<"iqr">> ELSE <<>>)
                           \o (IF iso.flags[i] THEN <<"isolation_forest">> ELSE <<>>)
                           \o (IF cusum.flags[i] THEN <<"cusum">> ELSE <<>>)
                is_anomaly == IsAnomaly(methods, min_agreement)
                mean2 == IF cusum.scores[i] > 0
                         THEN iso.scores[i] + RoundDiv(cusum.scores[i] * 10000, max_cusum)
                         ELSE 2 * iso.scores[i]
            IN  [is_anomaly |-> is_anomaly,
                 anomaly_score |-> AnomalyScore(mean2, is_anomaly),
                 methods_flagged |-> methods,
                 details |-> [iqr |-> iqr_flags[i],
                              isolation_forest |-> iso.flags[i],
                              isolation_score |-> iso.scores[i],
                              cusum |-> cusum.flags[i],
                              cusum_score |-> RoundDiv(cusum.scores[i] * 1000, n)]]]

\* The longest series.
MaxLen == 10

\* A level series with at most one day off the level, or a step from 0 to 10.
CountSeries ==
    UNION {{[i \in 1..n |-> 5]} \cup
           {[i \in 1..n |-> IF i = at THEN 5 + d ELSE 5] :
                at \in 1..n, d \in {-5, 6, 7, 35}} \cup
           {[i \in 1..n |-> IF i <= at THEN 0 ELSE 10] : at \in 1..(n - 1)}
           : n \in 0..MaxLen}

NoOutcome == [flagged |-> {}, levels |-> <<0, 0, 0>>]

\* The raw scores drawn: -0.3 for the rows predicted -1 against 0.1 and 0.2,
\* or -0.001 against 0.
ForestLevels == {<<-300, 100, 200>>, <<-1, 0, 0>>}

\* What the forest is taken to report for n rows: no row, one row or two rows
\* predicted -1, with the raw scores of ForestLevels.
IsoOutcomes(n) ==
    IF n < 10 THEN {NoOutcome}
    ELSE [flagged : {{}} \cup {{i, j} : i, j \in 1..n},
          levels : ForestLevels]

EnsembleInputs ==
    UNION {[event_counts : {c}, min_agreement : 1..3, outcome : IsoOutcomes(Len(c))]
           : c \in CountSeries}

NoEnsembleCall == [event_counts |-> <<>>, min_agreement |-> 0, outcome |-> NoOutcome]

EnsIdle == ens_in = NoEnsembleCall /\ ens_out = <<>>

EnsInit == ens_in \in EnsembleInputs /\ ens_out = <<>>

\* The call returns.
DetectAnomaliesEnsembleReturns ==
    /\ ens_out = <<>>
    /\ ens_out' = <<DetectAnomaliesEnsemble(ens_in.event_counts, ens_in.min_agreement,
                                           ens_in.outcome)>>
    /\ UNCHANGED <<ens_in, tierVars, sevVars, eventVars, seriesVars, pipelineVars>>

(***************************************************************************)
(* Claims about detect_anomalies_ensemble                                  *)
(***************************************************************************)
EnsReturned == ens_out # <<>>

\* The flags of the three detectors, each computed on its own.
DetectorFlags ==
    [iqr |-> DetectIqr(ens_in.event_counts),
     isolation_forest |->
        DetectIsolationForest(Len(ens_in.event_counts), ens_in.outcome).flags,
     cusum |-> DetectCusum(ens_in.event_counts).flags]

\* The detectors that flagged position i.
FlaggingIn(flags, i) == {m \in DOMAIN flags : flags[m][i]}

Flagging(i) == FlaggingIn(DetectorFlags, i)

\* C7: at every index and for every min_agreement, is_anomaly is true exactly
\* when the number of detectors that flagged the index is at least
\* min_agreement, and methods_flagged lists exactly those detectors.
C7_VoteByMinAgreement ==
    EnsReturned =>
        LET flags == DetectorFlags
        IN  /\ Len(ens_out[1]) = Len(ens_in.event_counts)
            /\ \A i \in 1..Len(ens_out[1]) :
                  /\ ens_out[1][i].is_anomaly
                        <=> Cardinality(FlaggingIn(flags, i)) >= ens_in.min_agreement
                  /\ {ens_out[1][i].methods_flagged[j] :
                         j \in 1..Len(ens_out[1][i].methods_flagged)} = FlaggingIn(flags, i)
                  /\ Len(ens_out[1][i].methods_flagged) = Cardinality(FlaggingIn(flags, i))

\* One call with min_agreement 3 in which a day has all three detectors and
\* is an anomaly, and another day has exactly two and is not.
C7_Witness ==
    /\ EnsReturned
    /\ ens_in.min_agreement = 3
    /\ \E i, j \in 1..Len(ens_out[1]) :
          /\ Cardinality(Flagging(i)) = 3 /\ ens_out[1][i].is_anomaly
          /\ Cardinality(Flagging(j)) = 2 /\ ~ens_out[1][j].is_anomaly

\* Position i (index i - 1 >= 1) holds the one value off the level, above it
\* by d with d * (n - 1) / n > 5.5.
SpikeAt(counts, i) ==
    LET n == Len(counts)
        level == counts[IF i = 1 THEN 2 ELSE 1]
    IN  /\ n >= 5
        /\ i \in 2..n
        /\ \A j \in 1..n : j # i => counts[j] = level
        /\ counts[i] > level
        /\ 2 * (counts[i] - level) * (n - 1) > 11 * n

\* C8: in a series of length n >= 5 that is constant but for one value at an
\* index i >= 1 above the constant by d with d * (n - 1) / n > 5.5, the
\* ensemble with min_agreement = 2 returns is_anomaly at i, whatever the
\* isolation detector reports.
C8_SpikeFlagged ==
    (EnsReturned /\ ens_in.min_agreement = 2) =>
        \A i \in 1..Len(ens_in.event_counts) :
            SpikeAt(ens_in.event_counts, i) => ens_out[1][i].is_anomaly

\* A spike of 7 over the level in a series of 10, the forest flagging two
\* other days and not the spike.
C8_Witness ==
    /\ EnsReturned
    /\ ens_in.min_agreement = 2
    /\ \E i \in 1..Len(ens_in.event_counts) :
          /\ SpikeAt(ens_in.event_counts, i)
          /\ ens_in.event_counts[i] = 12
          /\ Len(ens_in.event_counts) >= 10
          /\ i \notin ens_in.outcome.flagged
          /\ Cardinality(ens_in.outcome.flagged) = 2
          /\ ens_out[1][i].is_anomaly
          /\ ens_out[1][i].methods_flagged = <<"iqr", "cusum">>

(***************************************************************************)
(* event_classifier.py                                                     *)
(*                                                                         *)
(* A text is a sequence of phrases joined by single spaces; no keyword     *)
(* straddles two phrases.  The keyword rules are listed for the keywords   *)
(* that occur in the phrases used.  Confidences and probabilities are      *)
(* counted in thousandths.  The trained pipeline is a library model: what  *)
(* predict_proba does (raise, or return a distribution) is drawn.          *)
(***************************************************************************)
CATEGORIES ==
    <<"Armed Conflict", "Civil Unrest", "Diplomacy / Sanctions",
      "Economic Disruption", "Infrastructure / Energy", "Crime / Terror">>

\* _KEYWORD_RULES, in rule order.
KEYWORD_RULES ==
    <<[category |-> "Armed Conflict", keywords |-> {"war", "drone strike"}],
      [category |-> "Crime / Terror", keywords |-> {"attack"}],
      [category |-> "Civil Unrest",
       keywords |-> {"protest", "riot", "strike", "rally", "march"}],
      [category |-> "Diplomacy / Sanctions", keywords |-> {"sanctions"}],
      [category |-> "Economic Disruption", keywords |-> {"trade war"}],
      [category |-> "Infrastructure / Energy", keywords |-> {"cyberattack"}]>>

\* The keywords each phrase holds as substrings.
KeywordsIn(phrase) ==
    CASE phrase = "war" -> {"war"}
      [] phrase = "drone strike" -> {"drone strike", "strike"}
      [] phrase = "trade war" -> {"trade war", "war"}
      [] phrase \in {"protest", "rally", "march", "riot", "sanctions", "attack"} -> {phrase}
      [] phrase = "cyberattack" -> {"cyberattack", "attack"}
      [] phrase = "riot at a protest march" -> {"riot", "protest", "march"}
      [] OTHER -> {}

\* classify_by_keywords without the cap at 0.7.
ClassifyByKeywordsUncapped(text) ==
    LET found == UNION {KeywordsIn(text[i]) : i \in 1..Len(text)}
        count(r) == Cardinality(KEYWORD_RULES[r].keywords \cap found)
        scored == {r \in 1..Len(KEYWORD_RULES) : count(r) > 0}
    IN  IF scored = {} THEN <<"Civil Unrest", 100>>
        ELSE LET best == CHOOSE r \in scored :
                            \A q \in scored :
                                count(q) < count(r) \/ (count(q) = count(r) /\ r <= q)
             IN  <<KEYWORD_RULES[best].category, 200 * count(best)>>

\* classify_by_keywords keeping the last of the categories with the most hits.
ClassifyByKeywordsLastWins(text) ==
    LET found == UNION {KeywordsIn(text[i]) : i \in 1..Len(text)}
        count(r) == Cardinality(KEYWORD_RULES[r].keywords \cap found)
        scored == {r \in 1..Len(KEYWORD_RULES) : count(r) > 0}
    IN  IF scored = {} THEN <<"Civil Unrest", 100>>
        ELSE LET best == CHOOSE r \in scored :
                            \A q \in scored :
                                count(q) < count(r) \/ (count(q) = count(r) /\ r >= q)
             IN  <<KEYWORD_RULES[best].category, Min(700, 200 * count(best))>>

\* classify_by_keywords(text): <<category, confidence>>.
ClassifyByKeywords(text) ==
    LET found == UNION {KeywordsIn(text[i]) : i \in 1..Len(text)}
        count(r) == Cardinality(KEYWORD_RULES[r].keywords \cap found)
        scored == {r \in 1..Len(KEYWORD_RULES) : count(r) > 0}
    IN  IF scored = {} THEN <<"Civil Unrest", 100>>
        ELSE LET best == CHOOSE r \in scored :
                            \A q \in scored :
                                count(q) < count(r) \/ (count(q) = count(r) /\ r <= q)
             IN  <<KEYWORD_RULES[best].category, Min(700, 200 * count(best))>>

\* model.classes_: the labels in sorted order.
Classes ==
    <<"Armed Conflict", "Civil Unrest", "Crime / Terror", "Diplomacy / Sanctions",
      "Economic Disruption", "Infrastructure / Energy">>

\* np.argmax(proba): the first position holding the largest value.
ArgMax(proba) ==
    CHOOSE i \in 1..Len(proba) :
        /\ \A j \in 1..Len(proba) : proba[j] <= proba[i]
        /\ \A j \in 1..(i - 1) : proba[j] < proba[i]

\* The comparison with the threshold made strict.
ModelAnswersStrict(best_confidence, confidence_threshold) ==
    best_confidence > confidence_threshold

\* best_confidence >= confidence_threshold
ModelAnswers(best_confidence, confidence_threshold) ==
    best_confidence >= confidence_threshold

\* The texts classified.
EventTexts ==
    {<<>>, <<"weather">>, <<"war">>, <<"drone strike">>, <<"war", "war">>,
     <<"protest", "rally", "march">>, <<"protest", "rally", "march", "riot">>,
     <<"sanctions", "trade war">>}

\* What predict_proba is taken to do: raise, or give one class p and the next
\* class the rest.
PredictionOutcomes ==
    {<<>>} \cup
    {[i \in 1..Len(Classes) |->
         IF i = c THEN p ELSE IF i = (c % Len(Classes)) + 1 THEN 1000 - p ELSE 0]
        : c \in {1, 3, 6}, p \in {300, 500, 600, 1000}}

ConfidenceThresholds == {400, 600, 1000}

NoEventCall ==
    [op |-> "none", text |-> <<>>, confidence_threshold |-> 0, model |-> "None",
     load |-> "none", outcome |-> "not asked", result |-> <<>>, raised |-> FALSE]

EventInit ==
    /\ _model = "None"
    /\ model_file \in {"missing", "good", "corrupt"}
    /\ event_call = NoEventCall
    /\ load_calls = 0

EventIdle ==
    /\ _model = "None"
    /\ model_file = "missing"
    /\ event_call = NoEventCall
    /\ load_calls = 0

\* The most calls of joblib.load followed.
MaxLoads == 3

\* _load_model() without the test on the model held.
LoadModelAlways ==
    IF model_file = "missing" THEN <<_model, "none">>
    ELSE IF model_file = "good" THEN <<"pipeline", "loaded">>
    ELSE <<"None", "raised">>

\* _load_model(): <<the model returned, what joblib.load did>>.
LoadModel ==
    IF _model # "None" THEN <<_model, "none">>
    ELSE IF model_file = "missing" THEN <<"None", "none">>
    ELSE IF model_file = "good" THEN <<"pipeline", "loaded">>
    ELSE <<"None", "raised">>

\* classify_event(text, confidence_threshold), the pipeline doing `outcome`.
ClassifyEvent(text, confidence_threshold, outcome) ==
    LET loaded == LoadModel
        model == loaded[1]
        answered == model # "None" /\ outcome # <<>>
        probabilities == IF answered THEN [i \in 1..Len(Classes) |-> outcome[i]]
                         ELSE <<>>
        best_idx == ArgMax(outcome)
        keyword == ClassifyByKeywords(text)
        result ==
            IF answered /\ ModelAnswers(outcome[best_idx], confidence_threshold)
            THEN <<Classes[best_idx], outcome[best_idx],
                   {<<Classes[i], outcome[i]>> : i \in 1..Len(Classes)}>>
            ELSE <<keyword[1], keyword[2],
                   IF probabilities # <<>>
                   THEN {<<Classes[i], outcome[i]>> : i \in 1..Len(Classes)}
                   ELSE {<<keyword[1], keyword[2]>>}>>
    IN  /\ (model = "None") => outcome = <<>>
        /\ (loaded[2] # "none") => load_calls < MaxLoads
        /\ load_calls' = (IF loaded[2] # "none" THEN load_calls + 1 ELSE load_calls)
        /\ _model' = (IF loaded[2] = "loaded" THEN model ELSE _model)
        /\ event_call' = [op |-> "classify_event", text |-> text,
                          confidence_threshold |-> confidence_threshold,
                          model |-> model, load |-> loaded[2],
                          outcome |-> IF model = "None" THEN "not asked"
                                      ELSE IF outcome = <<>> THEN "raised"
                                      ELSE "returned",
                          result |-> result, raised |-> FALSE]
        /\ UNCHANGED <<model_file, tierVars, sevVars, ensVars, seriesVars, pipelineVars>>

\* train_classifier(): fits, saves the pipeline and keeps it.
TrainClassifier ==
    /\ model_file' = "good"
    /\ _model' = "pipeline"
    /\ event_call' = [NoEventCall EXCEPT !.op = "train_classifier", !.model = "pipeline"]
    /\ UNCHANGED <<load_calls, tierVars, sevVars, ensVars, seriesVars, pipelineVars>>

\* ensure_model_trained(): trains only when no file is at MODEL_PATH.
EnsureModelTrained ==
    /\ IF model_file = "missing"
       THEN /\ model_file' = "good"
            /\ _model' = "pipeline"
            /\ event_call' = [NoEventCall EXCEPT !.op = "ensure_model_trained",
                                                  !.model = "pipeline"]
       ELSE /\ event_call' = [NoEventCall EXCEPT !.op = "ensure_model_trained",
                                                  !.model = _model]
            /\ UNCHANGED <<_model, model_file>>
    /\ UNCHANGED <<load_calls, tierVars, sevVars, ensVars, seriesVars, pipelineVars>>

ClassifyEventCall ==
    \E text \in EventTexts, confidence_threshold \in ConfidenceThresholds,
       outcome \in PredictionOutcomes :
        ClassifyEvent(text, confidence_threshold, outcome)

EventNext == ClassifyEventCall \/ TrainClassifier \/ EnsureModelTrained

(***************************************************************************)
(* Claims about classify_event                                             *)
(***************************************************************************)
\* The last call was classify_event, and the pipeline (held or just loaded)
\* returned a distribution.
PredictionSucceeded ==
    /\ event_call.op = "classify_event"
    /\ event_call.model # "None"
    /\ event_call.outcome = "returned"

\* The distribution the pipeline returned, read back from the probabilities.
ReturnedProba == [i \in 1..Len(Classes) |->
                     CHOOSE p \in 0..1000 : <<Classes[i], p>> \in event_call.result[3]]

\* C10: classify_event returns the model's top category and its confidence
\* exactly when a model is available, the prediction succeeds and the top
\* confidence is at least confidence_threshold; in every other case it returns
\* the category and confidence of classify_by_keywords; it never raises.
C10_ModelOrKeywords ==
    event_call.op = "classify_event" =>
        /\ ~event_call.raised
        /\ IF PredictionSucceeded
              /\ \E i \in 1..Len(Classes) :
                    ReturnedProba[i] >= event_call.confidence_threshold
           THEN LET top == CHOOSE i \in 1..Len(Classes) :
                              /\ \A j \in 1..Len(Classes) : ReturnedProba[j] <= ReturnedProba[i]
                              /\ \A j \in 1..(i - 1) : ReturnedProba[j] < ReturnedProba[i]
                IN  /\ event_call.result[1] = Classes[top]
                    /\ event_call.result[2] = ReturnedProba[top]
           ELSE /\ event_call.result[1] = ClassifyByKeywords(event_call.text)[1]
                /\ event_call.result[2] = ClassifyByKeywords(event_call.text)[2]

\* A call answered by the model with a top confidence equal to the threshold,
\* on a text the keywords would put elsewhere.
C10_Witness ==
    /\ PredictionSucceeded
    /\ event_call.confidence_threshold = 600
    /\ event_call.text = <<"protest", "rally", "march">>
    /\ event_call.result[1] = "Crime / Terror"
    /\ event_call.result[2] = 600

\* The last classify_event call was answered by the model.
ModelBased ==
    /\ PredictionSucceeded
    /\ \E i \in 1..Len(Classes) : ReturnedProba[i] >= event_call.confidence_threshold

\* sum(probabilities.values())
RECURSIVE SumPairs(_)
SumPairs(pairs) ==
    IF pairs = {} THEN 0
    ELSE LET x == CHOOSE y \in pairs : TRUE IN x[2] + SumPairs(pairs \ {x})

\* C11: whenever the category and confidence returned by classify_event come
\* from the keyword fallback, the probabilities returned are the singleton
\* {category: confidence}; they sum to about 1 only when the result is
\* model-based.
C11_FallbackProbabilitiesSingleton ==
    (event_call.op = "classify_event" /\ ~ModelBased) =>
        /\ event_call.result[3] = {<<event_call.result[1], event_call.result[2]>>}
        /\ SumPairs(event_call.result[3]) < 990

\* What C12 asks of one step of the process.
LoadOnceStep ==
    /\ (_model # "None") =>
          /\ _model' = _model
          /\ load_calls' = load_calls
          /\ event_call'.load = "none"
    /\ (load_calls' # load_calls /\ event_call'.load = "raised") =>
          /\ event_call'.op = "classify_event"
          /\ ~event_call'.raised
          /\ _model' = "None"
          /\ event_call'.result[1] = ClassifyByKeywords(event_call'.text)[1]
          /\ event_call'.result[2] = ClassifyByKeywords(event_call'.text)[2]
    /\ (_model = "None" /\ event_call.load = "raised"
           /\ event_call'.op = "classify_event") =>
          /\ load_calls' = load_calls + 1
          /\ event_call'.load # "none"

\* C12: in any sequence of calls in one process, once the process holds a
\* model (after a successful load or a training run) no later call loads the
\* model file again; while it holds none, a load that raises is not surfaced
\* to the caller, the call is answered by keyword classification, and the
\* load is attempted again on the next call.
C12_LoadOnceRetryOnFailure == [][LoadOnceStep]_vars

\* A second load attempt, made after a first one raised, raised again and was
\* answered by the keywords.
C12_Witness ==
    /\ load_calls = 2
    /\ _model = "None"
    /\ event_call.op = "classify_event"
    /\ event_call.load = "raised"
    /\ event_call.result[1] = "Armed Conflict"
    /\ event_call.result[3] = {<<"Armed Conflict", 200>>}

(***************************************************************************)
(* trend_detector.py                                                       *)
(*                                                                         *)
(* Observations are whole numbers, None or NaN.  Slope, tau and r squared  *)
(* are exact fractions <<numerator, denominator>>.  A p-value is known by  *)
(* what the code asks of it: "1.0" (the statistic is 0), "below" the level *)
(* it is compared with, or "not below".  The normal and Student survival   *)
(* functions of scipy are modelled by their critical values.               *)
(***************************************************************************)
Sign(x) == IF x > 0 THEN 1 ELSE IF x < 0 THEN -1 ELSE 0

Abs(x) == IF x < 0 THEN -x ELSE x

\* [v for v in values if v is not None and not np.isnan(v)]
IsValidValue(v) == v # None /\ v # NaN

\* The filter of detect_trend keeping NaN.
IsNotNone(v) == v # None

ValidValuesKeepsNaN(values) == SelectSeq(values, IsNotNone)

ValidValues(values) == SelectSeq(values, IsValidValue)

\* mann_kendall_test: s, the sum of sign(data[j] - data[i]) over i < j.
MannKendallS(data) ==
    LET pairs == {p \in (1..Len(data)) \X (1..Len(data)) : p[1] < p[2]}
    IN  SumOver(pairs, [p \in pairs |-> Sign(data[p[2]] - data[p[1]])])

\* mann_kendall_test: 18 * var_s, the tie groups subtracted.
MannKendallVar18(data) ==
    LET n == Len(data)
        unique == {data[i] : i \in 1..n}
        tie == [v \in unique |->
                   LET t == Cardinality({i \in 1..n : data[i] = v})
                   IN  IF t > 1 THEN t * (t - 1) * (2 * t + 5) ELSE 0]
    IN  n * (n - 1) * (2 * n + 5) - SumOver(unique, tie)

\* mann_kendall_test: "rising" and "falling" follow the sign of tau when the
\* test is significant.
MannKendallDirectionReversed(s, p_value) ==
    IF p_value = "below" THEN (IF s > 0 THEN "falling" ELSE "rising") ELSE "stable"

MannKendallDirection(s, p_value) ==
    IF p_value = "below" THEN (IF s > 0 THEN "rising" ELSE "falling") ELSE "stable"

\* mann_kendall_test(data): [direction, tau, p_value].  p_value < 0.05 is
\* |z| > 1.959964, that is 18 * (|s| - 1)^2 > 3.8414588 * (18 * var_s).
MannKendallTest(data) ==
    LET n == Len(data)
        stable == [direction |-> "stable", tau |-> <<0, 1>>, p_value |-> "1.0"]
    IN  IF n < 4 THEN stable
        ELSE LET s == MannKendallS(data)
                 var18 == MannKendallVar18(data)
                 z == IF s = 0 THEN 0 ELSE Abs(s) - 1
                 p_value == IF z = 0 THEN "1.0"
                            ELSE IF 18000 * z * z > 3841 * var18 THEN "below"
                            ELSE "not below"
             IN  IF var18 <= 0 THEN stable
                 ELSE [direction |-> MannKendallDirection(s, p_value),
                       tau |-> <<2 * s, n * (n - 1)>>,
                       p_value |-> p_value]

\* The squared two-sided 10% critical value of Student's t, in thousandths,
\* by degrees of freedom.
TCrit2 == <<39863, 8526, 5538, 4544, 4060, 3775, 3589, 3457, 3360, 3285>>

\* stats.linregress(np.arange(len(arr)), arr): [slope, r_squared, p_value], from
\* the sums X = n Sxx, Y = n Syy and P = n Sxy.  r is 0 when the values are all
\* equal; a perfect fit has a p-value of 0 to within 1e-20.
LinRegress(arr) ==
    LET n == Len(arr)
        idx == 1..n
        sx == SumOver(idx, [i \in idx |-> i - 1])
        sy == SumOver(idx, [i \in idx |-> arr[i]])
        X == n * SumOver(idx, [i \in idx |-> (i - 1) * (i - 1)]) - sx * sx
        Y == n * SumOver(idx, [i \in idx |-> arr[i] * arr[i]]) - sy * sy
        P == n * SumOver(idx, [i \in idx |-> (i - 1) * arr[i]]) - sx * sy
        D == X * Y - P * P
    IN  [slope |-> <<P, X>>,
         r_squared |-> IF Y = 0 THEN <<0, 1>> ELSE <<P * P, X * Y>>,
         p_value |-> IF Y = 0 \/ P = 0 THEN "1.0"
                     ELSE IF D = 0 THEN "below"
                     ELSE IF 1000 * (n - 2) * P * P > TCrit2[n - 2] * D THEN "below"
                     ELSE "not below"]

\* detect_trend: the direction of the regression; slope_threshold in halves.
RegDirection(reg, slope_threshold2) ==
    IF reg.p_value = "below" /\ 2 * Abs(reg.slope[1]) > slope_threshold2 * reg.slope[2]
    THEN (IF reg.slope[1] > 0 THEN "rising" ELSE "falling")
    ELSE "stable"

\* detect_trend: the regression's direction whatever Mann-Kendall says.
DirectionRegressionOnly(mk, reg_direction) == reg_direction

\* detect_trend: Mann-Kendall's direction if it is significant, else the
\* regression's.
Direction(mk, reg_direction) ==
    IF mk.p_value = "below" THEN mk.direction ELSE reg_direction

\* detect_trend(values, slope_threshold, min_points): the TrendResult.
DetectTrend(values, slope_threshold2, min_points) ==
    LET arr == ValidValues(values)
    IN  IF Len(arr) < min_points
        THEN [direction |-> "stable", slope |-> <<0, 1>>, confidence |-> <<0, 1>>,
              p_value |-> "1.0", mk_direction |-> "None", mk_p_value |-> "None"]
        ELSE LET reg == LinRegress(arr)
                 mk == MannKendallTest(arr)
             IN  [direction |-> Direction(mk, RegDirection(reg, slope_threshold2)),
                  slope |-> reg.slope,
                  confidence |-> reg.r_squared,
                  p_value |-> reg.p_value,
                  mk_direction |-> mk.direction,
                  mk_p_value |-> mk.p_value]

MaxTrendLen == 5

\* Series drawn: every series of at most 4 observations over three levels,
\* None and NaN; every longer series over the three levels; and the series
\* of constant step 0, 2 or -2 of up to MaxTrendLen + 4 observations.
TrendSeries ==
    SeqsUpTo({0, 1, 5, None, NaN}, 4)
    \cup UNION {[1..n -> {0, 1, 5}] : n \in 5..MaxTrendLen}
    \cup {[i \in 1..n |-> start + step * (i - 1)] :
              n \in 0..(MaxTrendLen + 4), start \in {0, 3}, step \in {0, 2}}
    \cup {[i \in 1..n |-> 2 * (n - i)] : n \in 4..(MaxTrendLen + 4)}

\* slope_threshold 0.5 (the default) or 2.5; min_points 4 (the default) or 6.
TrendInputs ==
    [values : TrendSeries, slope_threshold2 : {1, 5}, min_points : {4, 6}]

NoTrendCall == [values |-> <<>>, slope_threshold2 |-> 1, min_points |-> 4]

TrendIdle == trend_in = NoTrendCall /\ trend_out = <<>>

TrendInit == trend_in \in TrendInputs /\ trend_out = <<>>

\* detect_trend returns.
DetectTrendReturns ==
    /\ trend_out = <<>>
    /\ trend_out' = <<DetectTrend(trend_in.values, trend_in.slope_threshold2,
                                  trend_in.min_points)>>
    /\ UNCHANGED <<trend_in, det_in, det_out, stl_in, stl_out,
                   tierVars, sevVars, ensVars, eventVars, pipelineVars>>

TrendReturned == trend_out # <<>>

\* The direction the regression of a returned TrendResult gives.
RegDirectionOf(r, slope_threshold2) ==
    IF r.p_value = "below" /\ 2 * Abs(r.slope[1]) > slope_threshold2 * r.slope[2]
    THEN (IF r.slope[1] > 0 THEN "rising" ELSE "falling")
    ELSE "stable"

\* C13: the direction detect_trend returns is the Mann-Kendall direction
\* whenever the Mann-Kendall p-value is below 0.05, and is then rising or
\* falling; otherwise it is the regression's direction, which is rising or
\* falling only if the regression p-value is below 0.1 and |slope| exceeds
\* slope_threshold, and stable otherwise.
C13_MannKendallWinsIfSignificant ==
    TrendReturned =>
        LET r == trend_out[1]
        IN  /\ (r.mk_p_value = "below") =>
                   /\ r.direction = r.mk_direction
                   /\ r.direction \in {"rising", "falling"}
            /\ (r.mk_p_value # "below") =>
                   r.direction = RegDirectionOf(r, trend_in.slope_threshold2)

\* A significant Mann-Kendall test decides against a regression that says stable.
C13_Witness ==
    /\ TrendReturned
    /\ trend_out[1].mk_p_value = "below"
    /\ RegDirectionOf(trend_out[1], trend_in.slope_threshold2) = "stable"
    /\ trend_out[1].direction = "rising"

\* The series rises by the same step from each observation to the next.
ConstantStep(values, step) ==
    /\ \A i \in 1..Len(values) : IsValidValue(values[i])
    /\ \A i \in 1..(Len(values) - 1) : values[i + 1] = values[i] + step

DefaultTrendParameters == trend_in.slope_threshold2 = 1 /\ trend_in.min_points = 4

\* C14: with the default parameters detect_trend reports "rising" for every
\* series of at least 8 observations that rises by 2.0 at every step, and for
\* every series of equal observations, of any length, it reports "stable".
C14_RisingAndFlatSeries ==
    TrendReturned =>
        /\ (/\ DefaultTrendParameters
            /\ Len(trend_in.values) >= 8
            /\ ConstantStep(trend_in.values, 2)) => trend_out[1].direction = "rising"
        /\ ConstantStep(trend_in.values, 0) => trend_out[1].direction = "stable"

\* Eight observations 3, 5, ..., 17 under the default parameters.
C14_Witness ==
    /\ TrendReturned
    /\ DefaultTrendParameters
    /\ Len(trend_in.values) = 8
    /\ trend_in.values[1] = 3
    /\ ConstantStep(trend_in.values, 2)
    /\ trend_out[1].direction = "rising"
    /\ trend_out[1].mk_p_value = "below"

\* How many observations of the series are numbers.
NumbersIn(values) ==
    Cardinality({i \in 1..Len(values) : values[i] # None /\ values[i] # NaN})

\* C19: when fewer than min_points observations remain after None and NaN
\* are discarded, detect_trend returns direction "stable", slope 0,
\* confidence 0 and p_value 1.
C19_TooFewPointsIsStable ==
    (TrendReturned /\ NumbersIn(trend_in.values) < trend_in.min_points) =>
        /\ trend_out[1].direction = "stable"
        /\ trend_out[1].slope[1] = 0
        /\ trend_out[1].confidence[1] = 0
        /\ trend_out[1].p_value = "1.0"

\* Four observations of which one is NaN, under min_points = 4.
C19_Witness ==
    /\ TrendReturned
    /\ trend_in.min_points = 4
    /\ trend_in.values = <<0, 1, NaN, 5>>
    /\ trend_out[1].direction = "stable"
    /\ trend_out[1].mk_p_value = "None"

(***************************************************************************)
(* anomaly_detection.py: detect_iqr, detect_cusum and                      *)
(* detect_isolation_forest called on their own.                            *)
(***************************************************************************)
\* A baseline run of `run` observations at `base`, then a run held at
\* base + c, n observations in all.
Sustained(n, run, base, c) == [i \in 1..n |-> IF i <= run THEN base ELSE base + c]

\* The offsets of the sustained run drawn.
Offsets == {0, 1, 2, 4, 8, 16, 32}

\* The sustained series of every length up to MaxLen.
SustainedSeries ==
    UNION {{Sustained(n, run, base, c) : run \in 1..(n - 1), base \in {0, 5}, c \in Offsets}
           : n \in 2..MaxLen}

\* A first observation far from the others.
FirstOffSeries ==
    {[i \in 1..n |-> IF i = 1 THEN first ELSE 5] : n \in 1..MaxLen, first \in {0, 40}}

\* detect_cusum's threshold and drift drawn, in tenths; 5.0 and 0.5 are the defaults.
CusumThresholds == {-10, 0, 50}

CusumDrifts == {-5, 0, 5}

NoDetectorCall ==
    [detector |-> "none", values |-> <<>>, threshold10 |-> 50, drift10 |-> 5,
     rows |-> 0, outcome |-> NoOutcome]

\* The calls drawn.  The forest's outcome is what the forest would report if
\* it were fitted on the rows.
DetectorInputs ==
    {[NoDetectorCall EXCEPT !.detector = "detect_iqr", !.values = v] :
        v \in CountSeries \cup FirstOffSeries}
    \cup {[NoDetectorCall EXCEPT !.detector = "detect_cusum", !.values = v,
                                 !.threshold10 = h, !.drift10 = d] :
              v \in SustainedSeries \cup FirstOffSeries \cup {<<>>},
              h \in CusumThresholds, d \in CusumDrifts}
    \cup UNION {{[NoDetectorCall EXCEPT !.detector = "detect_isolation_forest",
                                        !.rows = n, !.outcome = o] :
                     o \in [flagged : {{}} \cup {{i} : i \in 1..n},
                            levels : ForestLevels]}
                 : n \in 0..MaxLen}

DetIdle == det_in = NoDetectorCall /\ det_out = <<>>

DetInit == det_in \in DetectorInputs /\ det_out = <<>>

\* The detector called returns.
DetectIqrReturns ==
    /\ det_in.detector = "detect_iqr"
    /\ det_out = <<>>
    /\ det_out' = <<[flags |-> DetectIqr(det_in.values), scores |-> <<>>]>>
    /\ UNCHANGED <<det_in, trendVars, stlVars, tierVars, sevVars, ensVars, eventVars, pipelineVars>>

DetectCusumReturns ==
    /\ det_in.detector = "detect_cusum"
    /\ det_out = <<>>
    /\ det_out' = <<CusumWith(det_in.values, det_in.threshold10, det_in.drift10)>>
    /\ UNCHANGED <<det_in, trendVars, stlVars, tierVars, sevVars, ensVars, eventVars, pipelineVars>>

DetectIsolationForestReturns ==
    /\ det_in.detector = "detect_isolation_forest"
    /\ det_out = <<>>
    /\ det_out' = <<DetectIsolationForest(det_in.rows, det_in.outcome)>>
    /\ UNCHANGED <<det_in, trendVars, stlVars, tierVars, sevVars, ensVars, eventVars, pipelineVars>>

DetectorNext ==
    \/ DetectIqrReturns
    \/ DetectCusumReturns
    \/ DetectIsolationForestReturns

DetReturned == det_out # <<>>

\* The first position flagged, Len(flags) + 1 if none is.
FirstFlagged(flags) ==
    IF \E i \in 1..Len(flags) : flags[i]
    THEN CHOOSE i \in 1..Len(flags) : flags[i] /\ \A j \in 1..(i - 1) : ~flags[j]
    ELSE Len(flags) + 1

\* C15: for series of one length >= 5 made of a baseline run followed by a
\* run held at a constant offset c above the baseline, a larger offset is
\* flagged by detect_cusum at the same or an earlier index, under the same
\* threshold and drift.
C15_LargerOffsetFlaggedNoLater ==
    (DetReturned /\ det_in.detector = "detect_cusum" /\ Len(det_in.values) >= 5) =>
        LET n == Len(det_in.values)
        IN  \A run \in 1..(n - 1), base \in {0, 5}, c \in Offsets, larger \in Offsets :
                (det_in.values = Sustained(n, run, base, c) /\ larger > c) =>
                    FirstFlagged(CusumWith(Sustained(n, run, base, larger),
                                           det_in.threshold10, det_in.drift10).flags)
                        <= FirstFlagged(det_out[1].flags)

\* Under the defaults, ten days of which the last five are held 2, 4 or 8
\* above the first five: never flagged, first flagged on the fifth day, on
\* the third day.
C15_Witness ==
    /\ DetReturned
    /\ det_in.detector = "detect_cusum"
    /\ det_in.threshold10 = 50
    /\ det_in.drift10 = 5
    /\ det_in.values = Sustained(10, 5, 0, 4)
    /\ FirstFlagged(det_out[1].flags) = 5
    /\ FirstFlagged(DetectCusum(Sustained(10, 5, 0, 2)).flags) = 11
    /\ FirstFlagged(DetectCusum(Sustained(10, 5, 0, 8)).flags) = 3

\* C16: detect_cusum never flags index 0 and gives it the score 0, whatever
\* the series, the threshold and the drift, however far the first
\* observation lies from the mean.
C16_FirstIndexNeverFlagged ==
    (DetReturned /\ det_in.detector = "detect_cusum" /\ Len(det_in.values) >= 1) =>
        /\ ~det_out[1].flags[1]
        /\ det_out[1].scores[1] = 0

\* A first day of 40 before days of 5, under a threshold below zero: every
\* day but the first is flagged.
C16_Witness ==
    /\ DetReturned
    /\ det_in.detector = "detect_cusum"
    /\ det_in.threshold10 = -10
    /\ det_in.values = <<40, 5, 5, 5, 5, 5>>
    /\ ~det_out[1].flags[1]
    /\ \A i \in 2..6 : det_out[1].flags[i]

\* n flags, none of them set.
AllFalse(flags, n) == Len(flags) = n /\ \A i \in 1..n : ~flags[i]

\* C17: below its minimum length each detector returns one flag per
\* observation and sets none: detect_iqr under 4 points, detect_cusum under
\* 5 points, detect_isolation_forest under 10 rows.
C17_NoFlagsBelowMinimumLength ==
    DetReturned =>
        /\ (det_in.detector = "detect_iqr" /\ Len(det_in.values) < 4) =>
               AllFalse(det_out[1].flags, Len(det_in.values))
        /\ (det_in.detector = "detect_cusum" /\ Len(det_in.values) < 5) =>
               AllFalse(det_out[1].flags, Len(det_in.values))
        /\ (det_in.detector = "detect_isolation_forest" /\ det_in.rows < 10) =>
               AllFalse(det_out[1].flags, det_in.rows)

\* Nine rows of which the forest, had it been fitted, would flag the first.
C17_Witness ==
    /\ DetReturned
    /\ det_in.detector = "detect_isolation_forest"
    /\ det_in.rows = 9
    /\ det_in.outcome.flagged = {1}
    /\ AllFalse(det_out[1].flags, 9)

\* C18: for every count series of fewer than 5 observations, the empty
\* series among them, detect_anomalies_ensemble with min_agreement = 2
\* returns one verdict per observation and none with is_anomaly true.
C18_ShortSeriesNoAnomaly ==
    (EnsReturned /\ ens_in.min_agreement = 2 /\ Len(ens_in.event_counts) < 5) =>
        /\ Len(ens_out[1]) = Len(ens_in.event_counts)
        /\ \A i \in 1..Len(ens_out[1]) : ~ens_out[1][i].is_anomaly

\* Four days of which the last is flagged by the quartile rule alone.
C18_Witness ==
    /\ EnsReturned
    /\ ens_in.min_agreement = 2
    /\ ens_in.event_counts = <<5, 5, 5, 40>>
    /\ ens_out[1][4].methods_flagged = <<"iqr">>
    /\ ~ens_out[1][4].is_anomaly

(***************************************************************************)
(* time_series.py: decompose_stl                                           *)
(*                                                                         *)
(* A series is known by its length.  What statsmodels does inside the try  *)
(* block is an outcome drawn: the import fails, the fit raises, or the     *)
(* fit returns components whose variances are given; STL refuses a period  *)
(* under 2.                                                                *)
(***************************************************************************)
NoDecomposition ==
    [returned |-> "None", components |-> 0, dates |-> 0, seasonal_strength |-> 0]

\* decompose_stl without the test on the length.
DecomposeStlUnguarded(n, n_dates, period, library) ==
    IF library.kind # "fits" THEN NoDecomposition
    ELSE [returned |-> "DecompositionResult",
          components |-> n,
          dates |-> IF n_dates > 0 THEN Min(n_dates, n) ELSE n,
          seasonal_strength |->
              IF library.var_seas_resid > 0
              THEN Max(0, 10000 - (10000 * library.var_resid) \div library.var_seas_resid)
              ELSE 0]

\* decompose_stl(values, dates, period) for len(values) = n and n_dates date
\* labels (0: none given); seasonal_strength in 1/10000.
DecomposeStl(n, n_dates, period, library) ==
    IF n < period * 2 THEN NoDecomposition
    ELSE IF library.kind # "fits" THEN NoDecomposition
    ELSE [returned |-> "DecompositionResult",
          components |-> n,
          dates |-> IF n_dates > 0 THEN Min(n_dates, n) ELSE n,
          seasonal_strength |->
              IF library.var_seas_resid > 0
              THEN Max(0, 10000 - (10000 * library.var_resid) \div library.var_seas_resid)
              ELSE 0]

\* The longest series drawn.
MaxStlLen == 15

\* What the library does: the variances of the residual and of seasonal +
\* residual when it fits.
LibraryOutcomes(period) ==
    {[kind |-> "import fails", var_resid |-> 0, var_seas_resid |-> 0],
     [kind |-> "raises", var_resid |-> 0, var_seas_resid |-> 0]}
    \cup (IF period < 2 THEN {}
          ELSE [kind : {"fits"}, var_resid : {0, 1, 4}, var_seas_resid : {0, 2, 4}])

\* period 7 is the default.
StlInputs ==
    UNION {[n : 0..MaxStlLen, n_dates : {0, 1, MaxStlLen}, period : {period},
            library : LibraryOutcomes(period)] : period \in {0, 1, 2, 3, 7}}

NoStlCall ==
    [n |-> 0, n_dates |-> 0, period |-> 7,
     library |-> [kind |-> "raises", var_resid |-> 0, var_seas_resid |-> 0]]

StlIdle == stl_in = NoStlCall /\ stl_out = <<>>

StlInit == stl_in \in StlInputs /\ stl_out = <<>>

\* decompose_stl returns.
DecomposeStlReturns ==
    /\ stl_out = <<>>
    /\ stl_out' = <<DecomposeStl(stl_in.n, stl_in.n_dates, stl_in.period, stl_in.library)>>
    /\ UNCHANGED <<stl_in, trendVars, detVars, tierVars, sevVars, ensVars, eventVars, pipelineVars>>

StlReturned == stl_out # <<>>

\* C20: decompose_stl returns None for every series shorter than 2 * period,
\* and a failure raised inside the decomposition library on a series that is
\* long enough is turned into None as well.
C20_ShortOrFailedGivesNone ==
    StlReturned =>
        /\ (stl_in.n < 2 * stl_in.period) => stl_out[1] = NoDecomposition
        /\ (stl_in.n >= 2 * stl_in.period /\ stl_in.library.kind # "fits") =>
               stl_out[1] = NoDecomposition

\* Fourteen days under the weekly period on which the fit raises.
C20_Witness ==
    /\ StlReturned
    /\ stl_in.n = 14
    /\ stl_in.period = 7
    /\ stl_in.library.kind = "raises"
    /\ stl_out[1].returned = "None"

\* C21: every verdict detect_anomalies_ensemble returns has anomaly_score in
\* [0, 1], and anomaly_score is at least 0.6 whenever is_anomaly is true.
C21_AnomalyScoreInRange ==
    EnsReturned =>
        \A i \in 1..Len(ens_out[1]) :
            /\ 0 <= ens_out[1][i].anomaly_score
            /\ ens_out[1][i].anomaly_score <= 20000
            /\ ens_out[1][i].is_anomaly => ens_out[1][i].anomaly_score >= 12000

\* A day that the quartile rule and CUSUM confirm while the components
\* average below 0.6, the forest's score being 0.0: the score returned is 0.6.
C21_Witness ==
    /\ EnsReturned
    /\ \E i \in 1..Len(ens_out[1]) :
          /\ ens_out[1][i].is_anomaly
          /\ ens_out[1][i].details.isolation_score = 0
          /\ ens_out[1][i].details.cusum
          /\ ens_out[1][i].anomaly_score = 12000

(***************************************************************************)
(* event_classifier.py: classify_by_keywords called on its own.            *)
(***************************************************************************)
\* The phrases a text is made of; "hello" holds no keyword.
KeywordPhrases ==
    {"war", "drone strike", "trade war", "protest", "rally", "march", "riot",
     "sanctions", "attack", "cyberattack", "riot at a protest march", "hello"}

\* The longest text, in phrases.
MaxKwLen == 3

KeywordTexts == SeqsUpTo(KeywordPhrases, MaxKwLen)

KwIdle == kw_in = <<>> /\ kw_out = <<>>

KwInit == kw_in \in KeywordTexts /\ kw_out = <<>>

\* classify_by_keywords returns.
ClassifyByKeywordsReturns ==
    /\ kw_out = <<>>
    /\ kw_out' = <<ClassifyByKeywords(kw_in)>>
    /\ UNCHANGED <<kw_in, threads, dbVars, basesVars,
                   tierVars, sevVars, ensVars, eventVars, seriesVars>>

KwReturned == kw_out # <<>>

\* The keywords of rule r that the text holds.
HitsOf(r, text) ==
    {kw \in KEYWORD_RULES[r].keywords : \E i \in 1..Len(text) : kw \in KeywordsIn(text[i])}

\* The rule of a category.
RuleOf(category) == CHOOSE r \in 1..Len(KEYWORD_RULES) : KEYWORD_RULES[r].category = category

\* C22: classify_by_keywords returns the confidence min(0.7, h / 5), h being
\* the number of distinct keywords of the returned category found in the
\* text, and returns ("Civil Unrest", 0.1) when no keyword of any category
\* is found.
C22_KeywordConfidence ==
    KwReturned =>
        IF \A r \in 1..Len(KEYWORD_RULES) : HitsOf(r, kw_in) = {}
        THEN kw_out[1] = <<"Civil Unrest", 100>>
        ELSE LET h == Cardinality(HitsOf(RuleOf(kw_out[1][1]), kw_in))
             IN  /\ h > 0
                 /\ kw_out[1][2] = (IF 200 * h < 700 THEN 200 * h ELSE 700)

\* Four keywords of Civil Unrest found: 4 / 5 is capped at 0.7.
C22_Witness ==
    /\ KwReturned
    /\ Cardinality(HitsOf(RuleOf("Civil Unrest"), kw_in)) = 4
    /\ kw_out[1] = <<"Civil Unrest", 700>>

\* C25: when two or more categories have the same highest number of keyword
\* hits, classify_by_keywords returns the one listed earliest in the rule
\* order Armed Conflict, Crime / Terror, Civil Unrest, Diplomacy / Sanctions,
\* Economic Disruption, Infrastructure / Energy.
C25_TieGoesToEarliestRule ==
    LET RuleOrder == <<"Armed Conflict", "Crime / Terror", "Civil Unrest",
                       "Diplomacy / Sanctions", "Economic Disruption",
                       "Infrastructure / Energy">>
        hits(c) == Cardinality(HitsOf(RuleOf(c), kw_in))
        top == {i \in 1..6 : hits(RuleOrder[i]) > 0
                               /\ \A j \in 1..6 : hits(RuleOrder[j]) <= hits(RuleOrder[i])}
    IN  (KwReturned /\ Cardinality(top) >= 2) =>
            \E i \in top : /\ kw_out[1][1] = RuleOrder[i]
                            /\ \A j \in top : i <= j

\* "cyberattack" holds one keyword of Crime / Terror ("attack") and one of
\* Infrastructure / Energy, and "protest" one of Civil Unrest: Crime / Terror,
\* second in the rule order, is returned.
C25_Witness ==
    /\ KwReturned
    /\ kw_in = <<"protest", "cyberattack">>
    /\ kw_out[1] = <<"Crime / Terror", 200>>

\* The tier of a score under the boundaries 20, 40, 60 and 78.
TierUnderDefaults(score) ==
    IF score < T(20000) THEN "info"
    ELSE IF score < T(40000) THEN "low"
    ELSE IF score < T(60000) THEN "medium"
    ELSE IF score < T(78000) THEN "high"
    ELSE "critical"

\* C23: a classifier on which fit has never been called (fitted_at is None:
\* no fit has stored a sample) classifies every score against the default
\* boundaries 20, 40, 60, 78 and reports the percentile 50.0.
C23_UnfittedUsesDefaults ==
    (tier_call.op = "classify" /\ fitted_at = "None") =>
        /\ tier_call.tier = TierUnderDefaults(tier_call.score)
        /\ tier_call.pct = 500

\* 20.02 classified before any fit: low, percentile 50.0.
C23_Witness ==
    /\ tier_call.op = "classify"
    /\ fitted_at = "None"
    /\ all_scores = <<>>
    /\ tier_call.score = T(20020)
    /\ tier_call.tier = "low"
    /\ tier_call.pct = 500

\* A fit with no valid score leaves the classifier's attributes as they were.
FitNothingStep ==
    (tier_call'.op = "fit" /\ tier_call'.none_valid) =>
        UNCHANGED <<boundaries, tier_ranges, all_scores, fitted_at>>

\* C28: fit called with a list that holds no valid score (empty, or only
\* None and NaN) changes nothing: boundaries, tier_ranges, the stored sample
\* and fitted_at keep the values they had before the call.
C28_FitWithoutValidScoresChangesNothing == [][FitNothingStep]_vars

\* A fit with no valid score on a classifier holding fitted boundaries.
C28_Witness ==
    /\ tier_call.op = "fit"
    /\ tier_call.none_valid
    /\ fitted_at # "None"
    /\ boundaries # DEFAULT_BOUNDARIES
    /\ Len(all_scores) >= 5

(***************************************************************************)
(* risk_classifier.py: classify called from several threads on one         *)
(* classifier after a fit has completed.  A call reads self.boundaries for *)
(* assign_tier, then self.all_scores for the percentile; the calls of the  *)
(* threads interleave between the two reads.                               *)
(***************************************************************************)
ClassifyThreads == {1, 2}

NoThread == [pc |-> "idle", score |-> 0, tier |-> "", pct |-> 0]

\* classify appending the score to the stored sample.
SampleAfterClassifyGrows(sample, score) == Append(sample, score)

\* self.all_scores after a classify call: classify assigns no attribute.
SampleAfterClassify(sample, score) == sample

\* A classifier on which fit(scores) has completed; no thread has called yet.
ThreadsInit ==
    /\ threads = [t \in ClassifyThreads |-> NoThread]
    /\ method \in {"jenks", "kmeans"}
    /\ k = 5
    /\ \E m \in FitMasters :
          LET arr == ValidScores(m)
          IN  \E c \in Splits(Len(arr), k) :
                 LET res == ClassifyWith(method, arr, k, c)
                 IN  /\ all_scores = arr
                     /\ boundaries = res[1]
                     /\ tier_ranges = res[2]
                     /\ fitted_at = "t1"
                     /\ tier_call = [NoCall EXCEPT !.op = "fit", !.n_valid = Len(arr),
                                                   !.changed = (res[1] # DEFAULT_BOUNDARIES)]

ThreadsIdle == threads = <<>>

\* classify(score), first statement: tier = assign_tier(score, self.boundaries)
ClassifyAssignTier(t, score) ==
    /\ threads[t].pc = "idle"
    /\ threads' = [threads EXCEPT ![t] = [pc |-> "assigned", score |-> score,
                                           tier |-> AssignTier(score, boundaries),
                                           pct |-> 0]]
    /\ UNCHANGED <<tierVars, sevVars, ensVars, eventVars, seriesVars,
                   kwVars, dbVars, basesVars>>

\* classify(score), second statement and return: the percentile within
\* self.all_scores, rounded.
ClassifyPercentile(t) ==
    /\ threads[t].pc = "assigned"
    /\ threads' = [threads EXCEPT ![t].pc = "returned",
                                  ![t].pct = IF Len(all_scores) > 0
                                             THEN ComputePercentile(threads[t].score,
                                                                    all_scores)
                                             ELSE 500]
    /\ all_scores' = SampleAfterClassify(all_scores, threads[t].score)
    /\ UNCHANGED <<method, k, boundaries, tier_ranges, fitted_at, tier_call,
                   sevVars, ensVars, eventVars, seriesVars, kwVars, dbVars, basesVars>>

\* The caller takes the answer; the thread may call again.
ClassifyDone(t) ==
    /\ threads[t].pc = "returned"
    /\ threads' = [threads EXCEPT ![t] = NoThread]
    /\ UNCHANGED <<tierVars, sevVars, ensVars, eventVars, seriesVars,
                   kwVars, dbVars, basesVars>>

ClassifyAssignTierStep ==
    \E t \in ClassifyThreads, score \in ClassifyScores : ClassifyAssignTier(t, score)

ClassifyPercentileStep == \E t \in ClassifyThreads : ClassifyPercentile(t)

ClassifyDoneStep == \E t \in ClassifyThreads : ClassifyDone(t)

ThreadsNext == ClassifyAssignTierStep \/ ClassifyPercentileStep \/ ClassifyDoneStep

\* What one classify call alone returns for the score on the fitted classifier.
SequentialAnswer(score) ==
    [tier |-> AssignTier(score, boundaries),
     pct |-> IF Len(all_scores) > 0 THEN ComputePercentile(score, all_scores) ELSE 500]

\* Every answer returned is the answer of a call running alone.
AnswersAsSequential ==
    \A t \in DOMAIN threads :
        threads[t].pc = "returned" =>
            /\ threads[t].tier = SequentialAnswer(threads[t].score).tier
            /\ threads[t].pct = SequentialAnswer(threads[t].score).pct

\* C24: classify never changes the boundaries, the tier ranges, the stored
\* sample or fitted_at, so after a completed fit every interleaving of
\* concurrent classify calls returns, for each score, the tier and the
\* percentile of a sequential run.
C24_ConcurrentClassifyReadOnly ==
    /\ [][UNCHANGED <<boundaries, tier_ranges, all_scores, fitted_at>>]_vars
    /\ []AnswersAsSequential

\* One thread has its tier and not yet its percentile while the other has
\* returned, on a fitted classifier.
C24_Witness ==
    /\ threads # <<>>
    /\ threads[1].pc = "assigned"
    /\ threads[1].score = T(70000)
    /\ threads[2].pc = "returned"
    /\ threads[2].score = T(85000)
    /\ threads[2].tier = "critical"
    /\ fitted_at = "t1"

(***************************************************************************)
(* pipeline/ingest_valyu.py over the events and daily_metrics tables.      *)
(* A table is the set of its rows; a row carries the columns the           *)
(* aggregation and the trend step read or write.  daily_metrics holds at   *)
(* most one row per (date, country, category) (models.py, the unique       *)
(* constraint).                                                            *)
(***************************************************************************)
MaxDays == 4

MetricDates == 1..MaxDays

MetricCountries == {"US", "FR"}

MetricCategories == {"Armed Conflict", "Civil Unrest"}

\* The (date, country, category) keys of the rows drawn: two categories for
\* one country, one for the other.
MetricKeys(country, category) ==
    IF country = "FR" /\ category = "Civil Unrest" THEN {}
    ELSE {<<d, country, category>> : d \in MetricDates}

\* A row of a key is absent, holds a NULL severity_index or holds a number.
MetricStates(country, category) ==
    IF category = "Civil Unrest" THEN {"absent", "null", "scored"}
    ELSE {"absent", "scored"}

MetricSeverity(key) == 10 * key[1] + (IF key[3] = "Armed Conflict" THEN 50 ELSE 20)

MetricRow(key, state) ==
    [date |-> key[1], country |-> key[2], category |-> key[3], event_count |-> 1,
     severity_index |-> IF state = "scored" THEN MetricSeverity(key) ELSE None]

RowsOf(country, category, f) ==
    {MetricRow(key, f[key]) : key \in {x \in MetricKeys(country, category) :
                                         f[x] # "absent"}}

MetricTable(a, b, c) ==
    RowsOf("US", "Armed Conflict", a) \cup RowsOf("US", "Civil Unrest", b)
        \cup RowsOf("FR", "Armed Conflict", c)

UniqueKey(table) ==
    \A m1 \in table, m2 \in table :
        (m1.date = m2.date /\ m1.country = m2.country /\ m1.category = m2.category)
            => m1 = m2

RECURSIVE AsSeq(_)
AsSeq(S) == IF S = {} THEN <<>>
            ELSE LET m == CHOOSE x \in S : TRUE IN <<m>> \o AsSeq(S \ {m})

\* The rows of one date in the order the database returns them: ORDER BY
\* date leaves rows of equal date in any order, here the rows of one
\* category first.
OrderTied(rows, first) ==
    LET a == {m \in rows : m.category = first}
    IN  AsSeq(a) \o AsSeq(rows \ a)

RECURSIVE OrderByDate(_, _, _)
OrderByDate(table, first, d) ==
    IF d = 0 THEN <<>>
    ELSE OrderByDate(table, first, d - 1)
            \o OrderTied({m \in table : m.date = d}, first)

\* country_series[country]: (date, severity_index) of the country's rows
\* with a severity, in query order.
RECURSIVE CountrySeries(_, _)
CountrySeries(ordered, country) ==
    IF ordered = <<>> THEN <<>>
    ELSE LET m == Head(ordered)
             rest == CountrySeries(Tail(ordered), country)
         IN  IF m.country = country /\ m.severity_index # None
             THEN <<(<<m.date, m.severity_index>>)>> \o rest
             ELSE rest

\* values[-n:] if len(values) >= n else values
LastN(series, n) ==
    IF Len(series) >= n THEN SubSeq(series, Len(series) - n + 1, Len(series))
    ELSE series

\* The series compute_risk_and_trends hands to detect_trend, each with the
\* dates of its values.
SeriesPassed(table, first) ==
    IF {m \in table : m.severity_index # None} = {} THEN {}
    ELSE LET ordered == OrderByDate(table, first, MaxDays)
             countries == {m.country : m \in {x \in table : x.severity_index # None}}
             long == {c \in countries : Len(CountrySeries(ordered, c)) >= 4}
         IN  {[country |-> c, window |-> 7,
               series |-> LastN(CountrySeries(ordered, c), 7)] : c \in long}
             \cup
             {[country |-> c, window |-> 30,
               series |-> LastN(CountrySeries(ordered, c), 30)] : c \in long}

\* models.py: UniqueConstraint("date", "country", "category").
DailyMetricsUnique == UniqueKey(daily_metrics)

DbIdle == events = {} /\ daily_metrics = {} /\ db_call = <<>> /\ risk_out = <<>>

\* Stored daily metrics, compute_risk_and_trends not yet called.
RiskInit ==
    /\ events = {}
    /\ \E a \in [MetricKeys("US", "Armed Conflict") -> MetricStates("US", "Armed Conflict")],
          b \in [MetricKeys("US", "Civil Unrest") -> MetricStates("US", "Civil Unrest")],
          c \in [MetricKeys("FR", "Armed Conflict") -> MetricStates("FR", "Armed Conflict")] :
          daily_metrics = MetricTable(a, b, c)
    /\ db_call = <<>>
    /\ risk_out = <<>>

\* compute_risk_and_trends(session): the rows keep their key and their
\* severity_index; the risk and trend columns it writes are not columns of
\* the model's rows.
ComputeRiskAndTrends ==
    /\ risk_out = <<>>
    /\ \E first \in MetricCategories :
          risk_out' = <<[passed |-> SeriesPassed(daily_metrics, first)]>>
    /\ UNCHANGED <<events, daily_metrics, db_call, threads, kwVars, basesVars,
                   tierVars, sevVars, ensVars, eventVars, seriesVars>>

StrictlyIncreasingDates(series) ==
    \A i \in 1..(Len(series) - 1) : series[i][1] < series[i + 1][1]

\* C26: every series compute_risk_and_trends passes to detect_trend for a
\* country has strictly increasing dates, at most one observation per day,
\* for every set of stored daily metrics.
C26_SeriesStrictlyIncreasingDates ==
    risk_out # <<>> =>
        \A p \in risk_out[1].passed : StrictlyIncreasingDates(p.series)

\* The events table and the batches handed to store_events.
MaxBatch == 1

EventIds == {"e1", "e2"}

EventDates == {1, 2}

EventCountries == {"US", "None"}

EventSeverities == {20, 60}

\* An enriched event: the columns of the Event row the aggregation reads.
EnrichedEvents ==
    [id : EventIds, date : EventDates, country : EventCountries,
     category : MetricCategories, severity_index : EventSeverities]

\* A batch holds an id at most once.
EventBatches ==
    UNION {{b \in [1..n -> EnrichedEvents] :
              \A i \in 1..n, j \in 1..n : b[i].id = b[j].id => i = j} :
           n \in 0..MaxBatch}

\* One event of the batch: an existing row takes the ML columns of evt and
\* keeps its date and country; an unknown id is inserted.
StoreEvent(table, evt) ==
    IF \E e \in table : e.id = evt.id
    THEN {IF e.id = evt.id
          THEN [e EXCEPT !.category = evt.category,
                         !.severity_index = evt.severity_index]
          ELSE e : e \in table}
    ELSE table \cup {evt}

RECURSIVE StoreAll(_, _)
StoreAll(table, batch) ==
    IF batch = <<>> THEN table
    ELSE StoreAll(StoreEvent(table, Head(batch)), Tail(batch))

RECURSIVE SumSeverity(_)
SumSeverity(S) ==
    IF S = {} THEN 0
    ELSE LET e == CHOOSE x \in S : TRUE IN e.severity_index + SumSeverity(S \ {e})

\* The events of one (date, country, category) group.
EventGroup(table, d, country, category) ==
    {e \in table : e.date = d /\ e.country = country /\ e.category = category}

\* The rows of the grouped query for target_date: events with a country and
\* a category, counted and averaged per (date, country, category).
AggregateRows(table, d) ==
    {[date |-> d, country |-> g[1], category |-> g[2],
      event_count |-> Cardinality(EventGroup(table, d, g[1], g[2])),
      severity_index |-> SumSeverity(EventGroup(table, d, g[1], g[2]))
                            \div Cardinality(EventGroup(table, d, g[1], g[2]))] :
     g \in {<<e.country, e.category>> :
              e \in {x \in table : x.date = d /\ x.country # "None"}}}

\* Each row of the query updates the metric of its key or inserts one;
\* metrics of other keys are not touched.
UpsertMetrics(metrics, rows) ==
    {m \in metrics :
        ~ \E r \in rows : r.date = m.date /\ r.country = m.country
                              /\ r.category = m.category}
    \cup rows

\* Empty tables, nothing called.
DbInit == events = {} /\ daily_metrics = {} /\ db_call = <<>> /\ risk_out = <<>>

\* store_events(enriched_events, session)
StoreEvents ==
    \E batch \in EventBatches :
        /\ events' = StoreAll(events, batch)
        /\ db_call' = <<[op |-> "store_events", target_date |-> 0,
                         inserted |-> Cardinality(StoreAll(events, batch))
                                        - Cardinality(events)]>>
        /\ UNCHANGED <<daily_metrics, risk_out, threads, kwVars, basesVars,
                       tierVars, sevVars, ensVars, eventVars, seriesVars>>

\* aggregate_daily_metrics(session, target_date)
AggregateDailyMetrics ==
    \E d \in EventDates :
        /\ daily_metrics' = UpsertMetrics(daily_metrics, AggregateRows(events, d))
        /\ db_call' = <<[op |-> "aggregate_daily_metrics", target_date |-> d,
                         inserted |-> Cardinality(AggregateRows(events, d))]>>
        /\ UNCHANGED <<events, risk_out, threads, kwVars, basesVars,
                       tierVars, sevVars, ensVars, eventVars, seriesVars>>

DbNext == StoreEvents \/ AggregateDailyMetrics

\* C27: after any sequence of store_events and aggregate_daily_metrics
\* calls ending with aggregate_daily_metrics(d), every DailyMetric row of
\* date d has event_count equal to the number of stored events with the
\* row's date, country and category.
C27_CountsMatchStoredEvents ==
    (db_call # <<>> /\ db_call[1].op = "aggregate_daily_metrics") =>
        \A m \in daily_metrics :
            m.date = db_call[1].target_date =>
                m.event_count = Cardinality({e \in events :
                                               /\ e.date = m.date
                                               /\ e.country = m.country
                                               /\ e.category = m.category})

(***************************************************************************)
(* routes/valyu.py: get_military_bases and its module-level cache.         *)
(* time.time() is the model's clock, in whole seconds.                     *)
(***************************************************************************)
CACHE_SEC == 3600

\* The latest time a call is made at.
MaxClock == 10900

\* The time that passes between two calls.
ClockSteps == {0, 900, 1800, 3599, 3600}

\* The list built from MILITARY_BASES.
BasesOut ==
    <<[country |-> "DE", baseName |-> "Ramstein", type |-> "us"],
      [country |-> "IT", baseName |-> "Aviano", type |-> "nato"]>>

\* The freshness test taking an entry exactly CACHE_SEC old as fresh.
CacheFreshInclusive(cache, ts, now) ==
    cache # "None" /\ ts # None /\ (now - ts) <= CACHE_SEC

\* _bases_cache is not None and _bases_cache_ts is not None
\*     and (now - _bases_cache_ts) < CACHE_SEC
CacheFresh(cache, ts, now) ==
    cache # "None" /\ ts # None /\ (now - ts) < CACHE_SEC

NoBasesCall == <<>>

BasesIdle ==
    _bases_cache = "None" /\ _bases_cache_ts = None /\ clock = 0 /\ bases_call = NoBasesCall

\* The module as imported: nothing cached, no call made.
BasesInit ==
    _bases_cache = "None" /\ _bases_cache_ts = None /\ clock = 0 /\ bases_call = NoBasesCall

\* The time of the last answer with cached = False before the call being
\* made, None when there was none.
LastRefresh == IF bases_call = NoBasesCall THEN None ELSE bases_call[1].last_refresh

\* get_military_bases(), called `step` seconds after the previous call.  The
\* record of the call keeps the answer, the time of the call and the time
\* of the last answer that was not cached, before and after it.
GetMilitaryBases ==
    \E step \in ClockSteps :
        LET now == clock + step
        IN  /\ now <= MaxClock
            /\ clock' = now
            /\ IF CacheFresh(_bases_cache, _bases_cache_ts, now)
               THEN /\ bases_call' = <<[bases |-> _bases_cache, cached |-> TRUE,
                                        now |-> now, prev_refresh |-> LastRefresh,
                                        last_refresh |-> LastRefresh]>>
                    /\ UNCHANGED <<_bases_cache, _bases_cache_ts>>
               ELSE /\ _bases_cache' = BasesOut
                    /\ _bases_cache_ts' = now
                    /\ bases_call' = <<[bases |-> BasesOut, cached |-> FALSE,
                                        now |-> now, prev_refresh |-> LastRefresh,
                                        last_refresh |-> now]>>
            /\ UNCHANGED <<threads, kwVars, dbVars, tierVars, sevVars, ensVars,
                           eventVars, seriesVars>>

\* C30: in any sequence of get_military_bases calls, a call answers
\* cached = False when it is the first or when at least 3600 seconds have
\* passed since the last refresh, and cached = True with the list stored at
\* that refresh when fewer have passed; a cached answer does not extend the
\* lifetime, which runs from the last answer that was not cached.
C30_CacheLifetime ==
    bases_call # NoBasesCall =>
        LET c == bases_call[1]
            expired == c.prev_refresh = None \/ c.now - c.prev_refresh >= 3600
        IN  /\ c.cached = ~expired
            /\ c.bases = BasesOut
            /\ c.cached => (_bases_cache = c.bases /\ _bases_cache_ts = c.prev_refresh)

\* A refresh at 0, a cached answer at 3599 and then a call at 3600: the
\* call is not served from the cache although the last call was a second
\* before.
C30_Witness ==
    /\ bases_call # NoBasesCall
    /\ bases_call[1].now = 3600
    /\ bases_call[1].prev_refresh = 0
    /\ bases_call[1].cached = FALSE
    /\ _bases_cache_ts = 3600

\* A classifier nothing is called on.
TierIdle ==
    /\ method = "jenks"
    /\ k = 5
    /\ boundaries = DEFAULT_BOUNDARIES
    /\ tier_ranges = MakeTierRanges(DEFAULT_BOUNDARIES)
    /\ all_scores = <<>>
    /\ fitted_at = "None"
    /\ tier_call = NoCall

\* No call of detect_trend, of a single detector or of decompose_stl.
SeriesIdle == TrendIdle /\ DetIdle /\ StlIdle


\* No call of classify_by_keywords, no thread on the classifier, no
\* database and no get_military_bases call.
PipelineIdle == KwIdle /\ ThreadsIdle /\ DbIdle /\ BasesIdle

\* The risk tier classifier: any sequence of fit and classify calls.
Init == TierInit /\ SevIdle /\ EnsIdle /\ EventIdle /\ SeriesIdle /\ PipelineIdle

Next == TierNext

Spec == Init /\ [][Next]_vars

\* score_severity as a pure function: one call per behaviour.
InitSeverity == TierIdle /\ SevInit /\ EnsIdle /\ EventIdle /\ SeriesIdle /\ PipelineIdle

SpecSeverity == InitSeverity /\ [][ScoreSeverityReturns]_vars

\* detect_anomalies_ensemble as a pure function: one call per behaviour.
InitAnomaly == TierIdle /\ SevIdle /\ EnsInit /\ EventIdle /\ SeriesIdle /\ PipelineIdle

SpecAnomaly == InitAnomaly /\ [][DetectAnomaliesEnsembleReturns]_vars

\* The event classifier of one process: any sequence of its calls.
InitEvent == TierIdle /\ SevIdle /\ EnsIdle /\ EventInit /\ SeriesIdle /\ PipelineIdle

SpecEvent == InitEvent /\ [][EventNext]_vars

\* detect_trend as a pure function: one call per behaviour.
InitTrend ==
    TierIdle /\ SevIdle /\ EnsIdle /\ EventIdle /\ TrendInit /\ DetIdle /\ StlIdle /\ PipelineIdle

SpecTrend == InitTrend /\ [][DetectTrendReturns]_vars

\* Each detector of anomaly_detection.py as a pure function: one call per
\* behaviour.
InitDetector ==
    TierIdle /\ SevIdle /\ EnsIdle /\ EventIdle /\ TrendIdle /\ DetInit /\ StlIdle /\ PipelineIdle

SpecDetector == InitDetector /\ [][DetectorNext]_vars

\* decompose_stl as a pure function: one call per behaviour.
InitStl ==
    TierIdle /\ SevIdle /\ EnsIdle /\ EventIdle /\ TrendIdle /\ DetIdle /\ StlInit /\ PipelineIdle

SpecStl == InitStl /\ [][DecomposeStlReturns]_vars

\* classify_by_keywords as a pure function: one call per behaviour.
InitKeywords ==
    /\ TierIdle /\ SevIdle /\ EnsIdle /\ EventIdle /\ SeriesIdle
    /\ KwInit /\ ThreadsIdle /\ DbIdle /\ BasesIdle

SpecKeywords == InitKeywords /\ [][ClassifyByKeywordsReturns]_vars

\* classify called by concurrent threads on a fitted classifier.
InitThreads ==
    /\ ThreadsInit
    /\ SevIdle /\ EnsIdle /\ EventIdle /\ SeriesIdle /\ KwIdle /\ DbIdle /\ BasesIdle

SpecThreads == InitThreads /\ [][ThreadsNext]_vars

\* compute_risk_and_trends on a stored daily_metrics table.
InitRisk ==
    /\ RiskInit
    /\ TierIdle /\ SevIdle /\ EnsIdle /\ EventIdle /\ SeriesIdle /\ KwIdle
    /\ ThreadsIdle /\ BasesIdle

SpecRisk == InitRisk /\ [][ComputeRiskAndTrends]_vars

\* Any sequence of store_events and aggregate_daily_metrics calls.
InitDb ==
    /\ DbInit
    /\ TierIdle /\ SevIdle /\ EnsIdle /\ EventIdle /\ SeriesIdle /\ KwIdle
    /\ ThreadsIdle /\ BasesIdle

SpecDb == InitDb /\ [][DbNext]_vars

\* Any sequence of get_military_bases calls.
InitBases ==
    /\ BasesInit
    /\ TierIdle /\ SevIdle /\ EnsIdle /\ EventIdle /\ SeriesIdle /\ KwIdle
    /\ ThreadsIdle /\ DbIdle

SpecBases == InitBases /\ [][GetMilitaryBases]_vars

====
